---------------------------- MODULE Spec2Model ----------------------------
(***************************************************************************)
(* CraftLauncher: the account store (src/src/auth.py, AuthManager), the    *)
(* profile store (src/src/profiles.py, ProfileManager), the install and    *)
(* launch paths of the user interface (src/src/ui/main_window.py), the     *)
(* launch options (src/src/launcher_core.py) and the install of a mod with *)
(* its dependencies (src/src/mod_sources.py).                              *)
(*                                                                         *)
(* Account objects live on a heap (objs): AuthManager.accounts is a list   *)
(* of references and AuthManager.active_account is a reference or None, so *)
(* a refresh that mutates an object in place is seen through both.         *)
(* Strings handled by the store are text that json.dump can encode, so     *)
(* _save_accounts fails only with IOError, which it catches.               *)
(***************************************************************************)
EXTENDS Integers, Sequences, FiniteSets, TLC

\* ------------------------------------------------------------------ bounds
MaxObj == 3          \* Account objects constructed, account store alone
MaxTokenObj == 2     \* Account objects constructed, store with a clock
MaxTicks == 1        \* clock advances
MaxInstalls == 2     \* install threads started
MaxWorkers == 2      \* login threads started
MaxLoginObj == 3     \* Account objects constructed, threaded store
MaxStoreObj == 1     \* Account objects constructed, the two stores together
MaxCreated == 2      \* profiles made by create_profile and kept, archive store
MaxFiles == 2        \* files put into profile folders by hand
MaxReloadObj == 2    \* Account objects constructed between two restarts
MaxDownloads == 4    \* download_mod calls of one install

\* ------------------------------------------------------- program constants
TokenLifetime == 86400   \* expires_at = time.time() + 86400
ExpiryBuffer == 60       \* is_expired: time.time() >= expires_at - 60

None == 0

\* ------------------------------------------------------------------ inputs
Usernames == {"Steve", "steve", "Alex"}
ProviderIds == {"u1", "u2"}
Tokens == {"t1", "t2"}
RefreshTokens == {"", "r1"}
TickSteps == {TokenLifetime - ExpiryBuffer}
McVersions == {"1.20.1", "1.21"}
LoaderTypes == {"vanilla", "fabric", "forge+optifine"}
ProfileIds == {"p1", "p2"}
ProfileNames == {"My Pack"}

VARIABLES
    objs,       \* heap of Account objects, indexed by reference
    accounts,   \* AuthManager.accounts: list of references
    active,     \* AuthManager.active_account: a reference or None
    file,       \* accounts.json: absent, torn or the saved document
    now,        \* time.time()
    ticks,      \* clock advances so far
    last        \* the AuthManager call that has just returned, or Idle

authVars == <<objs, accounts, active, file, now, ticks, last>>

VARIABLES
    installed,          \* version ids present in the versions directory
    profiles,           \* ProfileManager.profiles: profile id -> Profile
    selected_version,   \* MainWindow.selected_version, "" when nothing is
    is_downloading,     \* MainWindow.is_downloading
    createWindow,       \* CreateProfileWindow: closed, open or installing
    modsWindow,         \* ModsWindow: open, its selected_version, is_installing
    threads,            \* the running install threads, in starting order
    started,            \* install threads started so far
    finished,           \* the install thread that ended last, or NoThread
    launched            \* the latest _launch_game call, or NoLaunch

installVars == <<installed, profiles, selected_version, is_downloading,
                 createWindow, modsWindow, threads, started, finished,
                 launched>>

VARIABLES
    workers,    \* login threads of the account window, in starting order
    added       \* references of the accounts whose login reported success

loginVars == <<workers, added>>

VARIABLES
    dirs,           \* the profile directories present under profiles/
    profiles_file,  \* profiles.json: absent, torn or the saved document
    returned        \* what the latest ProfileManager.delete_profile returned

profileVars == <<dirs, profiles_file, returned>>

VARIABLES
    files,      \* the files in the exportable folders of the profile
                \* directories, as <<directory, folder, name>>
    archive     \* the ZIP file at the export path, or NoArchive

archiveVars == <<files, archive>>

vars == <<authVars, installVars, loginVars, profileVars, archiveVars>>

\* ---------------------------------------------------------------- helpers
\* str.lower() on the usernames of the model
Lower(u) ==
    CASE u = "Steve" -> "steve"
      [] u = "steve" -> "steve"
      [] u = "Alex" -> "alex"
      [] OTHER -> u

\* AuthManager._generate_offline_uuid: the MD5-derived identifier of
\* "OfflinePlayer:<username>", tabulated for the usernames of the model
_generate_offline_uuid(u) ==
    CASE u = "Steve" -> "5627dd98-e6be-3c21-f8a8-e92344183641"
      [] u = "steve" -> "53909932-f794-33c0-5329-948045a4c1ce"
      [] u = "Alex" -> "36532b5e-c442-3dbb-224c-c7e55d0f979a"
      [] OTHER -> "unknown"

\* the display name the provider reports for a player id
ProviderName(id) == IF id = "u1" THEN "PlayerOne" ELSE "PlayerTwo"

\* Account(...) with the dataclass defaults
Account(type, username, uuid, access_token, refresh_token, expires_at, extra) ==
    [type |-> type, username |-> username, uuid |-> uuid,
     access_token |-> access_token, refresh_token |-> refresh_token,
     expires_at |-> expires_at, extra_data |-> extra]

\* an object nothing refers to any more
Dead == Account("dead", "", "", "", "", 0, "")

\* the references held by the store
Held(accs, act) == {accs[i] : i \in 1..Len(accs)} \cup ({act} \ {None})

\* the references held by the login threads
WorkerRefs ==
    UNION {({workers[w].account} \ {None})
               \cup {workers[w].filtered[i] : i \in 1..Len(workers[w].filtered)}
           : w \in DOMAIN workers}

\* dropping the last reference to an object frees it
Collect(os, accs, act) ==
    [r \in 1..Len(os) |->
        IF r \in Held(accs, act) \cup WorkerRefs THEN os[r] ELSE Dead]

\* the accounts a caller gets from get_accounts() and get_active_account()
Refs == Held(accounts, active)

\* is_expired without the one-minute buffer
is_expired_NoBuffer(acc, t) ==
    IF acc.type = "offline" THEN FALSE ELSE t >= acc.expires_at

\* Account.is_expired
is_expired(acc, t) ==
    IF acc.type = "offline" THEN FALSE ELSE t >= acc.expires_at - ExpiryBuffer

\* the login that appends without removing the account it replaces
WithoutSame_Keep(accs, os, kind, uuid) == accs

\* [a for a in self.accounts if not (a.type == kind and a.uuid == uuid)]
WithoutSame(accs, os, kind, uuid) ==
    SelectSeq(accs, LAMBDA r : ~(os[r].type = kind /\ os[r].uuid = uuid))

\* [a for a in self.accounts if a.uuid != account.uuid]
WithoutUuid(accs, os, uuid) ==
    SelectSeq(accs, LAMBDA r : os[r].uuid /= uuid)

\* the document _save_accounts builds
Document(os, accs, act) ==
    [status |-> "written",
     accounts |-> [i \in 1..Len(accs) |-> os[accs[i]]],
     active |-> IF act = None THEN "null" ELSE os[act].uuid]

Absent == [status |-> "absent", accounts |-> <<>>, active |-> "null"]
Torn == [status |-> "torn", accounts |-> <<>>, active |-> "null"]

\* AuthManager._save_accounts: open(..., "w") truncates, json.dump writes;
\* an IOError is caught and logged
SaveOutcomes == {"ok", "write_fails"}

Written(w, data) == IF w = "ok" THEN data ELSE Torn

_save_accounts(os, accs, act) ==
    \E w \in SaveOutcomes : file' = Written(w, Document(os, accs, act))

\* a call of the store: the operation, its argument (a username or a failure
\* in name, an account in arg), what it returned (ret), the provider round
\* trips it made (calls) and the refresh method it ran (via); whether it
\* left by an exception instead of returning (raised, and then ret is no
\* value) and how often it invoked on_complete (notified)
Call(op, name, arg, ret, calls, via) ==
    [op |-> op, name |-> name, arg |-> arg, ret |-> ret, calls |-> calls,
     via |-> via, raised |-> FALSE, notified |-> 0]

Idle == Call("idle", "", 0, TRUE, 0, "none")

\* ------------------------------------------------------ provider responses
Resp(kind, id, token, refresh) ==
    [kind |-> kind, id |-> id, token |-> token, refresh |-> refresh]

\* POST /auth/authenticate: 200 with a profile and a token, 200 without
\* "accessToken", another status, or a requests.RequestException
ElybyLoginResponses(ids, toks) ==
    {Resp("ok", i, t, "") : i \in ids, t \in toks}
        \cup {Resp(k, "", "", "") : k \in {"rejected", "network", "malformed"}}

\* mll.microsoft_account.complete_login: the login data, or an exception
MicrosoftLoginResponses(ids, toks, rts) ==
    {Resp("ok", i, t, r) : i \in ids, t \in toks, r \in rts}
        \cup {Resp("error", "", "", "")}

\* POST /auth/refresh and mll.microsoft_account.complete_refresh: a token,
\* with or without a new refresh token ("": the key is absent), or a failure
RefreshResponses(toks, rts) ==
    {Resp("ok", "", t, r) : t \in toks, r \in rts}
        \cup {Resp("error", "", "", "")}

\* ------------------------------------------------------------- AuthManager
\* the comparison of usernames without .lower()
SameOffline_Exact(acc, username) ==
    acc.type = "offline" /\ acc.username = username

\* acc.type == "offline" and acc.username.lower() == username.lower()
SameOffline(acc, username) ==
    acc.type = "offline" /\ Lower(acc.username) = Lower(username)

\* set_active_account keeping the old active account when the save fails
set_active_account_Rollback(a) ==
    \E w \in SaveOutcomes :
        /\ active' = IF w = "ok" THEN a ELSE active
        /\ objs' = Collect(objs, accounts, active')
        /\ file' = Written(w, Document(objs', accounts, active'))
        /\ last' = Call("set_active", "", a, TRUE, 0, "none")
        /\ UNCHANGED <<accounts, now, ticks>>

\* AuthManager.set_active_account
set_active_account(a) ==
    /\ active' = a
    /\ objs' = Collect(objs, accounts, a)
    /\ _save_accounts(objs', accounts, a)
    /\ last' = Call("set_active", "", a, TRUE, 0, "none")
    /\ UNCHANGED <<accounts, now, ticks>>

\* AuthManager.add_offline_account
add_offline_account(username) ==
    LET hits == {i \in 1..Len(accounts) : SameOffline(objs[accounts[i]], username)}
    IN IF hits /= {}
       THEN LET acc == accounts[CHOOSE i \in hits : \A j \in hits : i <= j]
            IN /\ active' = acc
               /\ objs' = Collect(objs, accounts, acc)
               /\ _save_accounts(objs', accounts, acc)
               /\ last' = Call("add_offline", username, acc, TRUE, 0, "none")
               /\ UNCHANGED <<accounts, now, ticks>>
       ELSE LET new == Len(objs) + 1
                account == Account("offline", username,
                                   _generate_offline_uuid(username), "", "", 0, "")
            IN /\ accounts' = Append(accounts, new)
               /\ active' = new
               /\ objs' = Collect(Append(objs, account), accounts', new)
               /\ _save_accounts(objs', accounts', new)
               /\ last' = Call("add_offline", username, new, TRUE, 0, "none")
               /\ UNCHANGED <<now, ticks>>

\* login_elyby catches requests.RequestException alone: the KeyError of
\* data["accessToken"] on a 200 response without the field leaves it
LoginRaises(resp) == resp.kind = "malformed"

\* AuthManager.login_elyby; a KeyError on data["accessToken"] leaves the
\* function before anything is assigned
login_elyby(resp) ==
    IF resp.kind = "ok"
    THEN LET new == Len(objs) + 1
             account == Account("elyby", ProviderName(resp.id), resp.id,
                                resp.token, "", 0, "client_token")
         IN /\ accounts' = Append(WithoutSame(accounts, objs, "elyby", account.uuid), new)
            /\ active' = new
            /\ objs' = Collect(Append(objs, account), accounts', new)
            /\ _save_accounts(objs', accounts', new)
            /\ last' = [Call("login_elyby",
                              IF Len(accounts') > Len(accounts) THEN "added" ELSE "replaced",
                              new, TRUE, 1, "none")
                         EXCEPT !.notified = 1]
            /\ UNCHANGED <<now, ticks>>
    ELSE /\ last' = [Call("login_elyby", resp.kind, 0, FALSE, 1, "none")
                      EXCEPT !.raised = LoginRaises(resp),
                             !.notified = IF LoginRaises(resp) THEN 0 ELSE 1]
         /\ UNCHANGED <<objs, accounts, active, file, now, ticks>>

\* AuthManager.complete_microsoft_login, the whole of its auth thread
complete_microsoft_login(resp) ==
    IF resp.kind = "ok"
    THEN LET new == Len(objs) + 1
             account == Account("microsoft", ProviderName(resp.id), resp.id,
                                resp.token, resp.refresh, now + TokenLifetime, "")
         IN /\ accounts' = Append(WithoutSame(accounts, objs, "microsoft", account.uuid), new)
            /\ active' = new
            /\ objs' = Collect(Append(objs, account), accounts', new)
            /\ _save_accounts(objs', accounts', new)
            /\ last' = [Call("login_microsoft",
                              IF Len(accounts') > Len(accounts) THEN "added" ELSE "replaced",
                              new, TRUE, 1, "none")
                         EXCEPT !.notified = 1]
            /\ UNCHANGED <<now, ticks>>
    ELSE /\ last' = [Call("login_microsoft", resp.kind, 0, FALSE, 1, "none")
                      EXCEPT !.notified = 1]
         /\ UNCHANGED <<objs, accounts, active, file, now, ticks>>

\* the refresh that stores the token before it looks at the status
RefreshedElyby_Early(acc, resp) == [acc EXCEPT !.access_token = resp.token]

\* refresh_elyby: the account after the response is handled
RefreshedElyby(acc, resp) ==
    IF resp.kind = "ok" THEN [acc EXCEPT !.access_token = resp.token] ELSE acc

\* refresh_microsoft: the account after the response is handled
RefreshedMicrosoft(acc, resp, t) ==
    IF resp.kind = "ok"
    THEN [acc EXCEPT !.access_token = resp.token,
                     !.refresh_token = IF resp.refresh = "" THEN @ ELSE resp.refresh,
                     !.expires_at = t + TokenLifetime]
    ELSE acc

\* AuthManager.refresh_elyby, called as op
RefreshElybyAs(op, arg, a, resp) ==
    /\ objs' = [objs EXCEPT ![a] = RefreshedElyby(@, resp)]
    /\ IF resp.kind = "ok"
       THEN _save_accounts(objs', accounts, active)
       ELSE UNCHANGED file
    /\ last' = Call(op, "", arg, resp.kind = "ok", 1, "elyby")
    /\ UNCHANGED <<accounts, active, now, ticks>>

\* AuthManager.refresh_microsoft, called as op
RefreshMicrosoftAs(op, arg, a, resp) ==
    IF objs[a].refresh_token = ""
    THEN /\ last' = Call(op, "", arg, FALSE, 0, "microsoft")
         /\ UNCHANGED <<objs, accounts, active, file, now, ticks>>
    ELSE /\ objs' = [objs EXCEPT ![a] = RefreshedMicrosoft(@, resp, now)]
         /\ IF resp.kind = "ok"
            THEN _save_accounts(objs', accounts, active)
            ELSE UNCHANGED file
         /\ last' = Call(op, "", arg, resp.kind = "ok", 1, "microsoft")
         /\ UNCHANGED <<accounts, active, now, ticks>>

refresh_elyby(a, resp) == RefreshElybyAs("refresh_elyby", a, a, resp)

refresh_microsoft(a, resp) == RefreshMicrosoftAs("refresh_microsoft", a, a, resp)

\* AuthManager.remove_account
remove_account(a) ==
    /\ accounts' = WithoutUuid(accounts, objs, objs[a].uuid)
    /\ active' = IF active /= None /\ objs[active].uuid = objs[a].uuid
                 THEN (IF accounts' /= <<>> THEN accounts'[1] ELSE None)
                 ELSE active
    /\ objs' = Collect(objs, accounts', active')
    /\ _save_accounts(objs', accounts', active')
    /\ last' = Call("remove", "", a, TRUE, 0, "none")
    /\ UNCHANGED <<now, ticks>>

\* AuthManager.logout
logout ==
    /\ active' = None
    /\ objs' = Collect(objs, accounts, None)
    /\ _save_accounts(objs', accounts, None)
    /\ last' = Call("logout", "", 0, TRUE, 0, "none")
    /\ UNCHANGED <<accounts, now, ticks>>

\* ensure_valid_token without the is_expired() test
NeedsRefresh_Always(acc, t) == acc.type /= "offline"

\* ensure_valid_token: the token has to be refreshed
NeedsRefresh(acc, t) == acc.type /= "offline" /\ is_expired(acc, t)

\* AuthManager.ensure_valid_token; arg is the account given, or None
ensure_valid_token(arg, resp) ==
    LET a == IF arg /= None THEN arg ELSE active
    IN IF a = None
       THEN /\ last' = Call("ensure_valid", "", arg, FALSE, 0, "none")
            /\ UNCHANGED <<objs, accounts, active, file, now, ticks>>
       ELSE IF ~NeedsRefresh(objs[a], now)
       THEN /\ last' = Call("ensure_valid", "", arg, TRUE, 0, "none")
            /\ UNCHANGED <<objs, accounts, active, file, now, ticks>>
       ELSE IF objs[a].type = "microsoft"
       THEN RefreshMicrosoftAs("ensure_valid", arg, a, resp)
       ELSE IF objs[a].type = "elyby"
       THEN RefreshElybyAs("ensure_valid", arg, a, resp)
       ELSE /\ last' = Call("ensure_valid", "", arg, FALSE, 0, "none")
            /\ UNCHANGED <<objs, accounts, active, file, now, ticks>>

\* time passes
Tick(d) ==
    /\ ticks < MaxTicks
    /\ now' = now + d
    /\ ticks' = ticks + 1
    /\ UNCHANGED <<objs, accounts, active, file, last>>

\* the caller takes the result of the call and goes on
Return ==
    /\ last /= Idle
    /\ last' = Idle
    /\ UNCHANGED <<objs, accounts, active, file, now, ticks>>

\* AuthManager.__init__ with no accounts.json
AuthInit ==
    /\ objs = <<>>
    /\ accounts = <<>>
    /\ active = None
    /\ file = Absent
    /\ now = 0
    /\ ticks = 0
    /\ last = Idle

\* ------------------------------------------------------------- installs
\* Text that is None or empty is "": the code tests such values only for
\* truth (`if not x`, `x or ""`), where None and "" agree.

\* Profile.version_id: the version id a profile launched
SplitFirstDash(s) ==
    CASE s = "1.20.1-47.2.0" -> <<"1.20.1", "47.2.0">>
      [] s = "1.21-51.0.33" -> <<"1.21", "51.0.33">>
      [] s = "1.7.10-10.13.4.1614-1.7.10" ->
             <<"1.7.10", "10.13.4.1614-1.7.10">>
      [] OTHER -> <<s>>

\* version_id without the "forge+optifine" alternative of the forge branch
version_id_ForgeOnly(minecraft_version, loader_type, loader_version) ==
    IF loader_type /= "" /\ loader_version /= ""
    THEN CASE loader_type = "fabric" ->
                  "fabric-loader-" \o loader_version \o "-" \o minecraft_version
           [] loader_type = "quilt" ->
                  "quilt-loader-" \o loader_version \o "-" \o minecraft_version
           [] loader_type = "forge" ->
                  LET parts == SplitFirstDash(loader_version)
                  IN  IF Len(parts) = 2
                      THEN parts[1] \o "-forge-" \o parts[2]
                      ELSE loader_version
           [] loader_type = "neoforge" -> "neoforge-" \o loader_version
           [] loader_type = "optifine" ->
                  minecraft_version \o "-OptiFine_" \o loader_version
           [] OTHER -> minecraft_version
    ELSE minecraft_version

version_id(minecraft_version, loader_type, loader_version) ==
    IF loader_type /= "" /\ loader_version /= ""
    THEN CASE loader_type = "fabric" ->
                  "fabric-loader-" \o loader_version \o "-" \o minecraft_version
           [] loader_type = "quilt" ->
                  "quilt-loader-" \o loader_version \o "-" \o minecraft_version
           [] loader_type \in {"forge", "forge+optifine"} ->
                  LET parts == SplitFirstDash(loader_version)
                  IN  IF Len(parts) = 2
                      THEN parts[1] \o "-forge-" \o parts[2]
                      ELSE loader_version
           [] loader_type = "neoforge" -> "neoforge-" \o loader_version
           [] loader_type = "optifine" ->
                  minecraft_version \o "-OptiFine_" \o loader_version
           [] OTHER -> minecraft_version
    ELSE minecraft_version

\* the loader version the dialog offers for a game version
LoaderVersionOf(loader_type, minecraft_version) ==
    CASE loader_type = "fabric" -> "0.15.11"
      [] loader_type = "quilt" -> "0.26.0"
      [] loader_type \in {"forge", "forge+optifine"} ->
             IF minecraft_version = "1.20.1" THEN "1.20.1-47.2.0"
             ELSE "1.21-51.0.33"
      [] loader_type = "neoforge" -> "21.0.167"
      [] loader_type = "optifine" -> "HD_U_I6"
      [] OTHER -> ""

\* ProfileManager._sanitize_folder_name on the profile names of the model
_sanitize_folder_name(name) ==
    CASE name = "My Pack" -> "My_Pack"
      [] name = "My Pack 1" -> "My_Pack_1"
      [] name = "My Pack (1)" -> "My_Pack_1"
      [] name = "My Pack (2)" -> "My_Pack_2"
      [] name = "My Pack (3)" -> "My_Pack_3"
      [] name = "My Pack (4)" -> "My_Pack_4"
      [] name = "My Pack 1 (1)" -> "My_Pack_1_1"
      [] name = "My Pack 1 (2)" -> "My_Pack_1_2"
      [] name = "My Pack 1 (3)" -> "My_Pack_1_3"
      [] name = "My Pack 1 (4)" -> "My_Pack_1_4"
      [] OTHER -> name

\* ProfileManager.get_profile_directory
get_profile_directory(name) == "profiles/" \o _sanitize_folder_name(name)

\* Profile(...) with the dataclass defaults; a time stamp is the one-element
\* sequence of its clock value, and None or "" the empty sequence, so that
\* they order as the ISO strings do
Profile(id, name, minecraft_version, loader_type, loader_version, dir) ==
    [id |-> id, name |-> name, minecraft_version |-> minecraft_version,
     loader_type |-> loader_type, loader_version |-> loader_version,
     game_directory |-> dir, last_played |-> <<>>, installed_mods |-> <<>>]

\* "profile:<id>", the selection of a profile card
ProfileCard(id) == "profile:" \o id

\* selected_version.startswith("profile:")
IsProfileCard(sel) == \E id \in ProfileIds : sel = ProfileCard(id)

\* selected_version.replace("profile:", "")
CardProfile(sel) == CHOOSE id \in ProfileIds : sel = ProfileCard(id)

\* MainWindow.version_cards: the versions of the manifest and of the disk
version_cards == McVersions \cup installed

\* the installer the install code calls for a loader type
InstallerOf(loader_type) ==
    CASE loader_type = "fabric" -> "install_fabric"
      [] loader_type \in {"forge", "forge+optifine"} -> "install_forge"
      [] loader_type = "neoforge" -> "install_neoforge"
      [] loader_type = "quilt" -> "install_quilt"
      [] loader_type = "optifine" -> "install_optifine"
      [] OTHER -> "none"

LoaderInstallers ==
    {"install_fabric", "install_forge", "install_neoforge", "install_quilt",
     "install_optifine"}

\* the loader types MainWindow._install_profile has a branch for
ProfileInstallLoaders == {"fabric", "forge", "neoforge", "quilt"}

\* an install thread: what it installs, where it is, the installer calls it
\* has made, what install_version and the loader installer returned, the
\* outcome shown to the user, and which of its installers had an external
\* call (network, subprocess, file system) fail
Thread(kind, profile, minecraft_version, loader_type, loader_version, pc, calls) ==
    [kind |-> kind, profile |-> profile,
     minecraft_version |-> minecraft_version, loader_type |-> loader_type,
     loader_version |-> loader_version, pc |-> pc, calls |-> calls,
     success |-> "pending", result |-> "", status |-> "pending",
     window |-> TRUE, name |-> "", failed |-> "none"]

NoLaunch == [version_id |-> "", game_directory |-> ""]

\* Config.get_minecraft_dir: the global game directory
get_minecraft_dir == ".minecraft"

\* the document _save_profiles builds
ProfilesDocument(ps) == [status |-> "written", profiles |-> ps]

NoProfilesFile == [status |-> "absent"]
TornProfiles == [status |-> "torn"]

\* ProfileManager._save_profiles, where the write ends as w: write_text
\* truncates and writes; any exception is caught and logged
_save_profiles(ps, w) ==
    profiles_file' = IF w = "ok" THEN ProfilesDocument(ps) ELSE TornProfiles

\* what a call op of ProfileManager on id returned
ReturnedFrom(op, id, ret) == [op |-> op, id |-> id, ret |-> ret]

\* what delete_profile returned
Returned(id, ret) == ReturnedFrom("delete_profile", id, ret)

NoReturn == [op |-> "none", id |-> "", ret |-> FALSE]

\* the sequence without its t-th element
Without(seq, t) == SubSeq(seq, 1, t - 1) \o SubSeq(seq, t + 1, Len(seq))

ClosedMods == [open |-> FALSE, selected_version |-> "", is_installing |-> FALSE]

\* the main window takes clicks: no dialog holds the grab
MainWindowActive == createWindow = "closed" /\ ~modsWindow.open

CanStart == started < MaxInstalls

InFlight(th) == th.pc \in {"base", "loader", "mod"}

\* MainWindow._launch_game with its launch thread: the game runs in the
\* custom directory if one is given, else in the global one, and the
\* directory is made if it is missing
_launch_game(version, custom_game_dir) ==
    LET game_dir == IF custom_game_dir /= "" THEN custom_game_dir
                    ELSE get_minecraft_dir
    IN  /\ launched' = [version_id |-> version, game_directory |-> game_dir]
        /\ dirs' = dirs \cup {game_dir}

\* datetime.now().isoformat()
isoformat(t) == <<t>>

\* ProfileManager.mark_played
mark_played(id, w) ==
    IF id \in DOMAIN profiles
    THEN /\ profiles' = [profiles EXCEPT ![id].last_played = isoformat(now)]
         /\ _save_profiles(profiles', w)
    ELSE UNCHANGED <<profiles, profiles_file>>

\* ProfileManager.create_profile: the id is eight hex digits of a uuid4; the
\* directory is made by get_profile_directory when none is given, and its
\* mods, saves and resourcepacks folders are made after the save
create_profile(id, name, minecraft_version, loader_type, loader_version, dir, w) ==
    LET game_directory == IF dir = "" THEN get_profile_directory(name) ELSE dir
    IN  /\ profiles' = [i \in DOMAIN profiles \cup {id} |->
                           IF i = id
                           THEN Profile(id, name, minecraft_version, loader_type,
                                        loader_version, game_directory)
                           ELSE profiles[i]]
        /\ _save_profiles(profiles', w)
        /\ dirs' = dirs \cup {game_directory}

\* delete_profile that answers True for an id it does not hold
delete_profile_Always(id, w) ==
    /\ profiles' = [i \in DOMAIN profiles \ {id} |-> profiles[i]]
    /\ _save_profiles(profiles', w)
    /\ returned' = Returned(id, TRUE)

\* ProfileManager.delete_profile
delete_profile(id, w) ==
    IF id \in DOMAIN profiles
    THEN /\ profiles' = [i \in DOMAIN profiles \ {id} |-> profiles[i]]
         /\ _save_profiles(profiles', w)
         /\ returned' = Returned(id, TRUE)
    ELSE /\ returned' = Returned(id, FALSE)
         /\ UNCHANGED <<profiles, profiles_file>>

\* MainWindow._select_version
_select_version(v) ==
    /\ MainWindowActive
    /\ v \in version_cards
    /\ selected_version' = v
    /\ UNCHANGED <<installed, profiles, is_downloading, createWindow,
                   modsWindow, threads, started, finished, launched>>
    /\ UNCHANGED profileVars

\* MainWindow._select_profile
_select_profile(id) ==
    /\ MainWindowActive
    /\ id \in DOMAIN profiles
    /\ selected_version' = ProfileCard(id)
    /\ UNCHANGED <<installed, profiles, is_downloading, createWindow,
                   modsWindow, threads, started, finished, launched>>
    /\ UNCHANGED profileVars

\* MainWindow._install_profile up to the start of its thread, whose first
\* statement calls install_version
_install_profile(p) ==
    /\ CanStart
    /\ is_downloading' = TRUE
    /\ threads' = Append(threads,
           Thread("profile", p.id, p.minecraft_version, p.loader_type,
                  p.loader_version, "base", <<"install_version">>))
    /\ started' = started + 1
    /\ UNCHANGED <<installed, profiles, selected_version, createWindow,
                   modsWindow, finished, launched>>
    /\ UNCHANGED profileVars

\* MainWindow._install_version up to the start of its thread
_install_version(v) ==
    /\ CanStart
    /\ is_downloading' = TRUE
    /\ threads' = Append(threads,
           Thread("version", "", v, "", "", "base", <<"install_version">>))
    /\ started' = started + 1
    /\ UNCHANGED <<installed, profiles, selected_version, createWindow,
                   modsWindow, finished, launched>>
    /\ UNCHANGED profileVars

\* MainWindow._play_profile
_play_profile(p, w) ==
    IF version_id(p.minecraft_version, p.loader_type, p.loader_version)
           \notin installed
    THEN _install_profile(p)
    ELSE /\ _launch_game(version_id(p.minecraft_version, p.loader_type,
                                    p.loader_version), p.game_directory)
         /\ mark_played(p.id, w)
         /\ UNCHANGED <<installed, selected_version, is_downloading,
                        createWindow, modsWindow, threads, started,
                        finished, returned>>

\* the test at the head of MainWindow._play, with the guard left out
PlayAccepted_Unguarded(sel, downloading) == sel /= ""

\* the test at the head of MainWindow._play
PlayAccepted(sel, downloading) == sel /= "" /\ ~downloading

\* MainWindow._play
_play(w) ==
    /\ MainWindowActive
    /\ PlayAccepted(selected_version, is_downloading)
    /\ IF IsProfileCard(selected_version)
       THEN IF CardProfile(selected_version) \in DOMAIN profiles
            THEN _play_profile(profiles[CardProfile(selected_version)], w)
            ELSE UNCHANGED <<installVars, profileVars>>
       ELSE IF selected_version \notin version_cards
            THEN UNCHANGED <<installVars, profileVars>>
            ELSE IF selected_version \notin installed
                 THEN _install_version(selected_version)
                 ELSE /\ _launch_game(selected_version, "")
                      /\ UNCHANGED <<installed, profiles, selected_version,
                                     is_downloading, createWindow,
                                     modsWindow, threads, started, finished,
                                     profiles_file, returned>>

\* MainWindow._open_create_profile
_open_create_profile ==
    /\ MainWindowActive
    /\ createWindow' = "open"
    /\ UNCHANGED <<installed, profiles, selected_version, is_downloading,
                   modsWindow, threads, started, finished, launched>>
    /\ UNCHANGED profileVars

\* CreateProfileWindow._create_profile with a valid form and no directory
\* typed in: get_profile_directory makes the directory of the name, then
\* the thread starts, whose first statement calls install_version
_create_profile(name, minecraft_version, loader_type) ==
    /\ createWindow = "open"
    /\ CanStart
    /\ createWindow' = "installing"
    /\ dirs' = dirs \cup {get_profile_directory(name)}
    /\ threads' = Append(threads,
           [Thread("create", "", minecraft_version, loader_type,
                   LoaderVersionOf(loader_type, minecraft_version), "base",
                   <<"install_version">>)
            EXCEPT !.name = name])
    /\ started' = started + 1
    /\ UNCHANGED <<installed, profiles, selected_version, is_downloading,
                   modsWindow, finished, launched, profiles_file, returned>>

\* the cancel button of CreateProfileWindow
CancelCreate ==
    /\ createWindow = "open"
    /\ createWindow' = "closed"
    /\ UNCHANGED <<installed, profiles, selected_version, is_downloading,
                   modsWindow, threads, started, finished, launched>>
    /\ UNCHANGED profileVars

\* MainWindow._open_mods
_open_mods ==
    /\ MainWindowActive
    /\ modsWindow' = [open |-> TRUE, selected_version |-> selected_version,
                      is_installing |-> FALSE]
    /\ UNCHANGED <<installed, profiles, selected_version, is_downloading,
                   createWindow, threads, started, finished, launched>>
    /\ UNCHANGED profileVars

\* ModsWindow._install_fabric, with _start_install, up to the start of its
\* thread, whose first statement calls install_fabric for the window's
\* selected_version and the latest loader
_install_fabric ==
    /\ modsWindow.open
    /\ ~modsWindow.is_installing
    /\ CanStart
    /\ modsWindow' = [modsWindow EXCEPT !.is_installing = TRUE]
    /\ threads' = Append(threads,
           Thread("mods", "", modsWindow.selected_version, "fabric",
                  LoaderVersionOf("fabric", modsWindow.selected_version),
                  "loader", <<"install_fabric">>))
    /\ started' = started + 1
    /\ UNCHANGED <<installed, profiles, selected_version, is_downloading,
                   createWindow, finished, launched>>
    /\ UNCHANGED profileVars

\* ModsWindow is closed: its threads go on and report to a destroyed window
CloseMods ==
    /\ modsWindow.open
    /\ modsWindow' = ClosedMods
    /\ threads' = [t \in DOMAIN threads |->
                     IF threads[t].kind = "mods" /\ threads[t].pc /= "done"
                     THEN [threads[t] EXCEPT !.window = FALSE]
                     ELSE threads[t]]
    /\ UNCHANGED <<installed, profiles, selected_version, is_downloading,
                   createWindow, started, finished, launched>>
    /\ UNCHANGED profileVars

\* `if not success: raise RuntimeError(...)`, with the test left out
RaisesAfterBase_Never(success) == FALSE

\* `if not success: raise RuntimeError(...)` after install_version
RaisesAfterBase(success) == ~success

\* whether the thread calls a loader installer once the base is installed
CallsLoader(th) ==
    CASE th.kind = "profile" ->
             /\ th.loader_type /= "" /\ th.loader_version /= ""
             /\ th.loader_type \in ProfileInstallLoaders
      [] th.kind = "create" -> th.loader_type /= "vanilla"
      [] OTHER -> FALSE

\* LauncherCore.install_version returns in an install thread, and the
\* thread goes on to its loader installer or posts its callback
install_version(t, ok) ==
    /\ t \in DOMAIN threads
    /\ threads[t].pc = "base"
    /\ installed' = IF ok THEN installed \cup {threads[t].minecraft_version}
                    ELSE installed
    /\ LET th == [threads[t] EXCEPT !.success = IF ok THEN "True" ELSE "False",
                                    !.failed = IF ok THEN @ ELSE "base"]
           raised == th.kind \in {"profile", "create"} /\ RaisesAfterBase(ok)
       IN  threads' = [threads EXCEPT ![t] =
               IF ~raised /\ CallsLoader(th)
               THEN [th EXCEPT !.pc = "loader",
                               !.calls = Append(@, InstallerOf(th.loader_type))]
               ELSE [th EXCEPT !.pc = "callback"]]
    /\ UNCHANGED <<profiles, selected_version, is_downloading, createWindow,
                   modsWindow, started, finished, launched>>
    /\ UNCHANGED profileVars

\* what a loader installer puts in the versions directory
InstalledId(th) ==
    version_id(th.minecraft_version, th.loader_type, th.loader_version)

\* what a loader installer returns on success
InstallerResult(th) ==
    IF th.loader_type \in {"forge", "forge+optifine"}
    THEN th.loader_version
    ELSE InstalledId(th)

\* how the external calls of a loader installer end: all succeed; one
\* raises; or, in install_optifine, the installer leaves no version and the
\* download repeated for the manual install is answered with an HTTP error
InstallerOutcomes == {"ok", "raises", "bad_download"}

\* whether the installer returns a version id: every exception is caught
\* and gives None, but the manual install of install_optifine does not
\* look at the status of its download
InstallerSucceeds(loader_type, o) ==
    o = "ok" \/ (o = "bad_download" /\ loader_type = "optifine")

\* ModManager.install_fabric, install_forge, install_neoforge, install_quilt
\* or install_optifine returns in an install thread: the version id, or None
\* after any exception
install_loader(t, o) ==
    /\ t \in DOMAIN threads
    /\ threads[t].pc = "loader"
    /\ o = "bad_download" => threads[t].loader_type = "optifine"
    /\ InstallerSucceeds(threads[t].loader_type, o) =>
           threads[t].minecraft_version \in McVersions
    /\ installed' = IF InstallerSucceeds(threads[t].loader_type, o)
                    THEN installed \cup {InstalledId(threads[t])}
                    ELSE installed
    /\ LET th == [threads[t] EXCEPT
                     !.result = IF InstallerSucceeds(threads[t].loader_type, o)
                                THEN InstallerResult(threads[t]) ELSE "",
                     !.failed = IF o = "ok" THEN @ ELSE "loader"]
       IN  threads' = [threads EXCEPT ![t] =
               IF th.kind = "create" /\ th.loader_type = "forge+optifine"
                  /\ th.result /= ""
               THEN [th EXCEPT !.pc = "mod",
                               !.calls = Append(@, "install_optifine_as_mod")]
               ELSE [th EXCEPT !.pc = "callback"]]
    /\ UNCHANGED <<profiles, selected_version, is_downloading, createWindow,
                   modsWindow, started, finished, launched>>
    /\ UNCHANGED profileVars

\* ModManager.install_optifine_as_mod returns: its result is only logged
install_optifine_as_mod(t) ==
    /\ t \in DOMAIN threads
    /\ threads[t].pc = "mod"
    /\ threads' = [threads EXCEPT ![t].pc = "callback"]
    /\ UNCHANGED <<installed, profiles, selected_version, is_downloading,
                   createWindow, modsWindow, started, finished, launched>>
    /\ UNCHANGED profileVars

\* what is left of a thread that has ended: the calls it made, what they
\* returned and the outcome its callback showed
Outcome(th, status) ==
    [kind |-> th.kind, loader_type |-> th.loader_type, calls |-> th.calls,
     success |-> th.success, loaded |-> th.result /= "", status |-> status]

NoThread ==
    [kind |-> "none", loader_type |-> "", calls |-> <<>>,
     success |-> "pending", loaded |-> FALSE, status |-> "pending"]

\* the thread ends once its callback has shown the outcome
Finished(t, status) ==
    /\ threads' = Without(threads, t)
    /\ finished' = Outcome(threads[t], status)
    /\ UNCHANGED started

\* the callbacks with an on_error that leaves is_downloading set
install_profile_callback_Stuck(t, launch, w) ==
    /\ t \in DOMAIN threads
    /\ threads[t].kind = "profile" /\ threads[t].pc = "callback"
    /\ is_downloading' = (threads[t].success = "False")
    /\ IF threads[t].success = "False"
       THEN /\ Finished(t, "failed")
            /\ UNCHANGED <<profiles, launched, dirs, profiles_file>>
       ELSE /\ Finished(t, "installed")
            /\ IF launch
               THEN /\ _launch_game(InstalledId(threads[t]), "")
                    /\ mark_played(threads[t].profile, w)
               ELSE UNCHANGED <<profiles, launched, dirs, profiles_file>>
    /\ UNCHANGED <<installed, selected_version, createWindow, modsWindow,
                   returned>>

\* on_complete and on_error of MainWindow._install_profile
install_profile_callback(t, launch, w) ==
    /\ t \in DOMAIN threads
    /\ threads[t].kind = "profile" /\ threads[t].pc = "callback"
    /\ is_downloading' = FALSE
    /\ IF threads[t].success = "False"
       THEN /\ Finished(t, "failed")
            /\ UNCHANGED <<profiles, launched, dirs, profiles_file>>
       ELSE /\ Finished(t, "installed")
            /\ IF launch
               THEN /\ _launch_game(InstalledId(threads[t]), "")
                    /\ mark_played(threads[t].profile, w)
               ELSE UNCHANGED <<profiles, launched, dirs, profiles_file>>
    /\ UNCHANGED <<installed, selected_version, createWindow, modsWindow,
                   returned>>

\* on_complete of MainWindow._install_version
install_version_callback(t) ==
    /\ t \in DOMAIN threads
    /\ threads[t].kind = "version" /\ threads[t].pc = "callback"
    /\ is_downloading' = FALSE
    /\ IF threads[t].success = "True"
       THEN /\ Finished(t, "installed")
            /\ selected_version' = threads[t].minecraft_version
            /\ _launch_game(threads[t].minecraft_version, "")
       ELSE /\ Finished(t, "failed")
            /\ UNCHANGED <<selected_version, launched, dirs>>
    /\ UNCHANGED <<installed, profiles, createWindow, modsWindow,
                   profiles_file, returned>>

\* on_success and on_error of CreateProfileWindow._create_profile, with
\* MainWindow._on_profile_created and the closing of the dialog
create_profile_callback(t, id, w) ==
    /\ t \in DOMAIN threads
    /\ threads[t].kind = "create" /\ threads[t].pc = "callback"
    /\ IF threads[t].success = "False"
       THEN /\ Finished(t, "failed")
            /\ createWindow' = "open"
            /\ UNCHANGED <<profiles, dirs, profiles_file>>
       ELSE /\ Finished(t, "created")
            /\ createWindow' = "closed"
            /\ LET vanilla == threads[t].loader_type = "vanilla"
               IN  create_profile(id, threads[t].name,
                       threads[t].minecraft_version,
                       IF vanilla THEN "" ELSE threads[t].loader_type,
                       IF vanilla THEN "" ELSE threads[t].loader_version,
                       get_profile_directory(threads[t].name), w)
    /\ UNCHANGED <<installed, selected_version, is_downloading, modsWindow,
                   launched, returned>>

\* ModsWindow._finish_install, on the window that started the thread
_finish_install(t) ==
    /\ t \in DOMAIN threads
    /\ threads[t].kind = "mods" /\ threads[t].pc = "callback"
    /\ Finished(t, IF threads[t].result /= "" THEN "installed" ELSE "failed")
    /\ modsWindow' = IF threads[t].window
                     THEN [modsWindow EXCEPT !.is_installing = FALSE]
                     ELSE modsWindow
    /\ UNCHANGED <<installed, profiles, selected_version, is_downloading,
                   createWindow, launched>>
    /\ UNCHANGED profileVars

\* MainWindow.__init__ with an empty versions directory and no profiles
InstallInit ==
    /\ installed = {}
    /\ profiles = [i \in {} |-> Dead]
    /\ selected_version = ""
    /\ is_downloading = FALSE
    /\ createWindow = "closed"
    /\ modsWindow = ClosedMods
    /\ threads = <<>>
    /\ started = 0
    /\ finished = NoThread
    /\ launched = NoLaunch

\* ProfileManager.__init__ with no profiles.json: it makes the profiles
\* directory, and with it the global game directory
ProfileInit ==
    /\ dirs = {get_minecraft_dir}
    /\ profiles_file = NoProfilesFile
    /\ returned = NoReturn

\* ------------------------------------------- the account store, threaded
\* AuthManager has no lock: AccountWindow._login_elyby runs login_elyby on a
\* worker thread and complete_microsoft_login starts its own, and either can
\* be preempted between the statements that read and write the store.

\* the Account a successful login constructs
ElybyAccount(resp) ==
    Account("elyby", ProviderName(resp.id), resp.id, resp.token, "", 0,
            "client_token")

MicrosoftAccount(resp, t) ==
    Account("microsoft", ProviderName(resp.id), resp.id, resp.token,
            resp.refresh, t + TokenLifetime, "")

\* a login thread: the provider it talks to, where it is, the Account it
\* constructed, the list its comprehension built and the document
\* _save_accounts built
Worker(kind) ==
    [kind |-> kind, pc |-> "request", account |-> None, filtered |-> <<>>,
     data |-> Absent]

Running(kind) ==
    \E w \in DOMAIN workers : workers[w].kind = kind /\ workers[w].pc /= "done"

Key(acc) == [type |-> acc.type, uuid |-> acc.uuid]

\* AccountWindow._login_elyby with a username and a password: is_busy, then
\* the worker thread
StartElybyLogin ==
    /\ ~Running("elyby")
    /\ Len(workers) < MaxWorkers
    /\ workers' = Append(workers, Worker("elyby"))
    /\ UNCHANGED <<authVars, added>>

\* AccountWindow._complete_microsoft with a code: the button is disabled and
\* complete_microsoft_login starts its thread
StartMicrosoftLogin ==
    /\ ~Running("microsoft")
    /\ Len(workers) < MaxWorkers
    /\ workers' = Append(workers, Worker("microsoft"))
    /\ UNCHANGED <<authVars, added>>

\* the provider answers: the thread constructs the Account, or reports the
\* failure and ends
ProviderAnswers(w, resp) ==
    /\ w \in DOMAIN workers
    /\ workers[w].pc = "request"
    /\ IF resp.kind = "ok"
       THEN /\ Len(objs) < MaxLoginObj
            /\ objs' = Append(objs, IF workers[w].kind = "elyby"
                                    THEN ElybyAccount(resp)
                                    ELSE MicrosoftAccount(resp, now))
            /\ workers' = [workers EXCEPT ![w].pc = "filter",
                                          ![w].account = Len(objs) + 1]
       ELSE /\ workers' = [workers EXCEPT ![w].pc = "done"]
            /\ UNCHANGED objs
    /\ UNCHANGED <<accounts, active, file, now, ticks, last, added>>

\* [a for a in self.accounts if not (...)] is evaluated
FilterAccounts(w) ==
    /\ w \in DOMAIN workers
    /\ workers[w].pc = "filter"
    /\ workers' = [workers EXCEPT
           ![w].pc = "assign",
           ![w].filtered = WithoutSame(accounts, objs, workers[w].kind,
                                       objs[workers[w].account].uuid)]
    /\ UNCHANGED <<authVars, added>>

\* self.accounts = <the list built>
AssignAccounts(w) ==
    /\ w \in DOMAIN workers
    /\ workers[w].pc = "assign"
    /\ accounts' = workers[w].filtered
    /\ workers' = [workers EXCEPT ![w].pc = "append", ![w].filtered = <<>>]
    /\ UNCHANGED <<objs, active, file, now, ticks, last, added>>

\* self.accounts.append(account)
AppendAccount(w) ==
    /\ w \in DOMAIN workers
    /\ workers[w].pc = "append"
    /\ accounts' = Append(accounts, workers[w].account)
    /\ workers' = [workers EXCEPT ![w].pc = "activate"]
    /\ UNCHANGED <<objs, active, file, now, ticks, last, added>>

\* self.active_account = account
ActivateAccount(w) ==
    /\ w \in DOMAIN workers
    /\ workers[w].pc = "activate"
    /\ active' = workers[w].account
    /\ workers' = [workers EXCEPT ![w].pc = "snapshot"]
    /\ UNCHANGED <<objs, accounts, file, now, ticks, last, added>>

\* _save_accounts builds its document from the store as it is now
SnapshotAccounts(w) ==
    /\ w \in DOMAIN workers
    /\ workers[w].pc = "snapshot"
    /\ workers' = [workers EXCEPT
           ![w].pc = "write",
           ![w].data = Document(objs, accounts, active)]
    /\ UNCHANGED <<authVars, added>>

\* _save_accounts writes the document it built; on_complete(True, ...)
WriteAccounts(w) ==
    /\ w \in DOMAIN workers
    /\ workers[w].pc = "write"
    /\ \E o \in SaveOutcomes : file' = Written(o, workers[w].data)
    /\ added' = added \cup {Key(objs[workers[w].account])}
    /\ workers' = [workers EXCEPT ![w].pc = "done", ![w].account = None,
                                  ![w].data = Absent]
    /\ UNCHANGED <<objs, accounts, active, now, ticks, last>>

LoginInit ==
    /\ workers = <<>>
    /\ added = {}

\* ----------------------------- the account store, one call at a time
\* the construction of the launcher: AuthManager, MainWindow, no threads
\* no files in the profile folders and nothing exported
NoArchive == [status |-> "absent"]

ArchiveInit ==
    /\ files = {}
    /\ archive = NoArchive

Init == AuthInit /\ InstallInit /\ LoginInit /\ ProfileInit /\ ArchiveInit

\* a call of the store touches neither the install state nor the threads
StoreOnly == UNCHANGED <<installVars, loginVars, profileVars, archiveVars>>

\* no call is in progress and another Account object may be constructed
CanConstruct(cap) == last = Idle /\ Len(objs) < cap

\* the calls of the store, with provider ids from ids, tokens from toks and
\* refresh tokens from rts, and at most cap Account objects constructed
StoreCall(names, ids, toks, rts, cap) ==
    \/ \E u \in names :
          CanConstruct(cap) /\ add_offline_account(u) /\ StoreOnly
    \/ \E r \in ElybyLoginResponses(ids, toks) :
          CanConstruct(cap) /\ login_elyby(r) /\ StoreOnly
    \/ \E r \in MicrosoftLoginResponses(ids, toks, rts) :
          CanConstruct(cap) /\ complete_microsoft_login(r) /\ StoreOnly
    \/ \E a \in Refs, r \in RefreshResponses(toks, {""}) :
          last = Idle /\ refresh_elyby(a, r) /\ StoreOnly
    \/ \E a \in Refs, r \in RefreshResponses(toks, rts) :
          last = Idle /\ refresh_microsoft(a, r) /\ StoreOnly
    \/ \E a \in Refs : last = Idle /\ remove_account(a) /\ StoreOnly
    \/ \E a \in Refs : last = Idle /\ set_active_account(a) /\ StoreOnly
    \/ last = Idle /\ logout /\ StoreOnly
    \/ \E a \in Refs \cup {None}, r \in RefreshResponses(toks, rts) :
          last = Idle /\ ensure_valid_token(a, r) /\ StoreOnly

\* identities in full, one token of each kind, no clock
AuthNext ==
    \/ StoreCall(Usernames, ProviderIds, {"t1"}, {"r1"}, MaxObj)
    \/ Return /\ StoreOnly

SpecAuth == Init /\ [][AuthNext]_vars

\* tokens and the clock in full, one identity of each kind
TokenNext ==
    \/ StoreCall({"Steve"}, {"u1"}, Tokens, RefreshTokens, MaxTokenObj)
    \/ \E d \in TickSteps : last = Idle /\ Tick(d) /\ StoreOnly
    \/ Return /\ StoreOnly

SpecToken == Init /\ [][TokenNext]_vars

\* --------------------------------------- the account store, with threads
\* a step of a login thread touches no install state
LoginOnly == UNCHANGED <<installVars, profileVars, archiveVars>>

\* the login threads step by step, and calls on the user-interface thread
LoginNext ==
    \/ StartElybyLogin /\ LoginOnly
    \/ StartMicrosoftLogin /\ LoginOnly
    \/ \E w \in DOMAIN workers,
          r \in ElybyLoginResponses({"u1"}, {"t1"})
                 \cup MicrosoftLoginResponses({"u1"}, {"t1"}, {"r1"}) :
          ProviderAnswers(w, r) /\ LoginOnly
    \/ \E w \in DOMAIN workers : FilterAccounts(w) /\ LoginOnly
    \/ \E w \in DOMAIN workers : AssignAccounts(w) /\ LoginOnly
    \/ \E w \in DOMAIN workers : AppendAccount(w) /\ LoginOnly
    \/ \E w \in DOMAIN workers : ActivateAccount(w) /\ LoginOnly
    \/ \E w \in DOMAIN workers : SnapshotAccounts(w) /\ LoginOnly
    \/ \E w \in DOMAIN workers : WriteAccounts(w) /\ LoginOnly
    \/ \E u \in {"Steve"} :
          last = Idle /\ Len(objs) < MaxLoginObj /\ add_offline_account(u)
              /\ StoreOnly
    \/ last = Idle /\ logout /\ StoreOnly
    \/ Return /\ StoreOnly

SpecLogin == Init /\ [][LoginNext]_vars

\* ------------------------------------------------------------ the installs
\* profiles.json is written without failure here; its failures are those of
\* the profile store called on its own.
\* a step of the user interface or of an install thread touches no account
\* the files that installs put into profile folders are not followed here
UiOnly == UNCHANGED <<authVars, loginVars, archiveVars>>

InstallNext ==
    \/ \E v \in McVersions \cup installed : _select_version(v) /\ UiOnly
    \/ \E id \in ProfileIds : _select_profile(id) /\ UiOnly
    \/ \E w \in {"ok"} : _play(w) /\ UiOnly
    \/ _open_create_profile /\ UiOnly
    \/ \E n \in ProfileNames, v \in McVersions, l \in LoaderTypes :
          _create_profile(n, v, l) /\ UiOnly
    \/ CancelCreate /\ UiOnly
    \/ _open_mods /\ UiOnly
    \/ _install_fabric /\ UiOnly
    \/ CloseMods /\ UiOnly
    \/ \E t \in DOMAIN threads, ok \in BOOLEAN : install_version(t, ok) /\ UiOnly
    \/ \E t \in DOMAIN threads, o \in InstallerOutcomes :
          install_loader(t, o) /\ UiOnly
    \/ \E t \in DOMAIN threads : install_optifine_as_mod(t) /\ UiOnly
    \/ \E t \in DOMAIN threads, launch \in BOOLEAN, w \in {"ok"} :
          install_profile_callback(t, launch, w) /\ UiOnly
    \/ \E t \in DOMAIN threads : install_version_callback(t) /\ UiOnly
    \/ \E t \in DOMAIN threads, id \in ProfileIds, w \in {"ok"} :
          create_profile_callback(t, id, w) /\ UiOnly
    \/ \E t \in DOMAIN threads : _finish_install(t) /\ UiOnly

SpecInstall == Init /\ [][InstallNext]_vars

\* --------------------------------------- the profile store, called directly
\* a call of ProfileManager, or the delete dialog, leaves the accounts, the
\* other windows and the install threads alone
ProfileOnly ==
    UNCHANGED <<authVars, loginVars, is_downloading, createWindow, modsWindow,
                threads, started, finished, launched>>

\* LauncherCore.delete_version: the versions left, when shutil.rmtree
\* succeeds (ok) and when it raises, which is caught
delete_version(versions, v, ok) ==
    IF v \in versions /\ ok THEN versions \ {v} ELSE versions

\* the test that finds no other profile
other_profiles_using_version_None(ps, profile_id, v) == {}

\* the profiles other than profile_id whose version_id is v
other_profiles_using_version(ps, profile_id, v) ==
    {i \in DOMAIN ps \ {profile_id} :
        version_id(ps[i].minecraft_version, ps[i].loader_type,
                   ps[i].loader_version) = v}

\* the answers of the dialog of _delete_profile: askyesnocancel gives True,
\* False or None; askyesno, asked when there is neither a folder nor a
\* version to delete, gives True or False
Answers == {"yes", "no", "cancel"}

\* MainWindow._delete_profile; removed and deleted tell whether the rmtree
\* of the folder and of the version succeed
_delete_profile(profile_id, answer, removed, deleted, w) ==
    /\ MainWindowActive
    /\ IF profile_id \notin DOMAIN profiles
       THEN UNCHANGED <<installed, profiles, selected_version, profileVars,
                        files>>
       ELSE LET profile == profiles[profile_id]
                v == version_id(profile.minecraft_version, profile.loader_type,
                                profile.loader_version)
                version_in_use ==
                    other_profiles_using_version(profiles, profile_id, v) /= {}
                version_installed == v \in installed
                has_custom_dir == /\ profile.game_directory /= ""
                                  /\ profile.game_directory \in dirs
                can_delete_version == version_installed /\ ~version_in_use
                three_way == has_custom_dir \/ can_delete_version
                goes_on == IF three_way THEN answer /= "cancel"
                           ELSE answer = "yes"
                delete_all == three_way /\ answer = "yes"
            IN  IF ~goes_on
                THEN UNCHANGED <<installed, profiles, selected_version,
                                 profileVars, files>>
                ELSE /\ dirs' = IF delete_all /\ has_custom_dir /\ removed
                                THEN dirs \ {profile.game_directory}
                                ELSE dirs
                     /\ files' = {f \in files : f[1] \in dirs'}
                     /\ installed' = IF delete_all /\ can_delete_version
                                     THEN delete_version(installed, v, deleted)
                                     ELSE installed
                     /\ delete_profile(profile_id, w)
                     /\ selected_version' =
                            IF selected_version = ProfileCard(profile_id)
                            THEN "" ELSE selected_version
    /\ UNCHANGED archive
    /\ ProfileOnly

\* the versions the versions directory may hold when the launcher starts
PresentVersions == {"1.20.1", "fabric-loader-0.15.11-1.20.1"}

\* MainWindow.__init__ with no profiles and some versions installed before
ProfilesInit ==
    /\ AuthInit /\ LoginInit /\ ProfileInit /\ ArchiveInit
    /\ installed \in SUBSET PresentVersions
    /\ profiles = [i \in {} |-> Dead]
    /\ selected_version = ""
    /\ is_downloading = FALSE
    /\ createWindow = "closed"
    /\ modsWindow = ClosedMods
    /\ threads = <<>>
    /\ started = 0
    /\ finished = NoThread
    /\ launched = NoLaunch

\* the calls of ProfileManager with ids from ids, names from names, loader
\* types from loaders (none is "") and no game directory given
ProfileCall(ids, names, loaders) ==
    \/ \E id \in ids, n \in names, l \in loaders, w \in SaveOutcomes :
          /\ create_profile(id, n, "1.20.1", l, LoaderVersionOf(l, "1.20.1"),
                            "", w)
          /\ UNCHANGED <<installed, selected_version, returned, archiveVars>>
          /\ ProfileOnly
    \/ \E id \in ids, w \in SaveOutcomes :
          /\ delete_profile(id, w)
          /\ UNCHANGED <<installed, selected_version, dirs, archiveVars>>
          /\ ProfileOnly
    \/ \E id \in ids, w \in SaveOutcomes :
          /\ mark_played(id, w)
          /\ UNCHANGED <<installed, selected_version, dirs, returned, archiveVars>>
          /\ ProfileOnly

ProfilesNext ==
    \/ ProfileCall(ProfileIds, ProfileNames, {"", "fabric"})
    \/ \E id \in ProfileIds : _select_profile(id) /\ UiOnly
    \/ \E id \in ProfileIds, answer \in Answers, removed \in BOOLEAN,
          deleted \in BOOLEAN, w \in SaveOutcomes :
          _delete_profile(id, answer, removed, deleted, w)

SpecProfiles == ProfilesInit /\ [][ProfilesNext]_vars

\* ------------------------------------ the two stores, each called directly
StoresNext ==
    \/ StoreCall({"Steve"}, {"u1"}, {"t1"}, {"r1"}, MaxStoreObj)
    \/ Return /\ StoreOnly
    \/ last = Idle /\ ProfileCall(ProfileIds, ProfileNames, {""})

SpecStores == ProfilesInit /\ [][StoresNext]_vars

\* ------------------------------------------ the launch of stored profiles
\* the loader types of a stored profile; "" is None, a vanilla profile
StoredLoaderTypes ==
    {"", "fabric", "quilt", "forge", "forge+optifine", "neoforge", "optifine"}

\* the loader versions a profile of a loader type is stored with: the one
\* the dialog offers, and for forge one with a second "-"
StoredLoaderVersions(loader_type, minecraft_version) ==
    {LoaderVersionOf(loader_type, minecraft_version)}
        \cup (IF loader_type \in {"forge", "forge+optifine"}
              THEN {"1.7.10-10.13.4.1614-1.7.10"} ELSE {})

StoredProfiles(id) ==
    {Profile(id, n, v, l, lv, get_profile_directory(n)) :
        n \in ProfileNames, v \in McVersions, l \in StoredLoaderTypes,
        lv \in UNION {StoredLoaderVersions(l2, v2) :
                         l2 \in StoredLoaderTypes, v2 \in McVersions}}

\* MainWindow.__init__ with a profiles.json of two profiles whose versions
\* are installed
ResolveInit ==
    /\ AuthInit /\ LoginInit /\ ArchiveInit
    /\ profiles \in {ps \in [ProfileIds -> UNION {StoredProfiles(i) : i \in ProfileIds}] :
                       \A i \in ProfileIds :
                           /\ ps[i].id = i
                           /\ ps[i].loader_version \in
                                  StoredLoaderVersions(ps[i].loader_type,
                                                       ps[i].minecraft_version)}
    /\ installed = {version_id(profiles[i].minecraft_version,
                               profiles[i].loader_type,
                               profiles[i].loader_version) : i \in ProfileIds}
    /\ dirs = {get_minecraft_dir}
                \cup {profiles[i].game_directory : i \in ProfileIds}
    /\ profiles_file = ProfilesDocument(profiles)
    /\ returned = NoReturn
    /\ selected_version = ""
    /\ is_downloading = FALSE
    /\ createWindow = "closed"
    /\ modsWindow = ClosedMods
    /\ threads = <<>>
    /\ started = 0
    /\ finished = NoThread
    /\ launched = NoLaunch

ResolveNext ==
    \/ \E id \in ProfileIds : _select_profile(id) /\ UiOnly
    \/ \E w \in {"ok"} : _play(w) /\ UiOnly

SpecResolve == ResolveInit /\ [][ResolveNext]_vars

\* ------------------- the create dialog with the installers of mods.py that
\* download an installer and run it as a subprocess themselves
SubprocessLoaders == {"neoforge", "optifine"}

LoaderNext ==
    \/ _open_create_profile /\ UiOnly
    \/ \E n \in ProfileNames, v \in McVersions, l \in SubprocessLoaders :
          _create_profile(n, v, l) /\ UiOnly
    \/ CancelCreate /\ UiOnly
    \/ \E t \in DOMAIN threads, ok \in BOOLEAN : install_version(t, ok) /\ UiOnly
    \/ \E t \in DOMAIN threads, o \in InstallerOutcomes :
          install_loader(t, o) /\ UiOnly
    \/ \E t \in DOMAIN threads, id \in ProfileIds, w \in {"ok"} :
          create_profile_callback(t, id, w) /\ UiOnly

SpecLoaders == Init /\ [][LoaderNext]_vars

\* ------------------------------------------------- the launch of the game
\* str.replace("-", "") on the identifiers of the model
without_dashes(uuid) ==
    CASE uuid = "5627dd98-e6be-3c21-f8a8-e92344183641" -> "5627dd98e6be3c21f8a8e92344183641"
      [] uuid = "53909932-f794-33c0-5329-948045a4c1ce" -> "53909932f79433c05329948045a4c1ce"
      [] uuid = "36532b5e-c442-3dbb-224c-c7e55d0f979a" -> "36532b5ec4423dbb224cc7e55d0f979a"
      [] OTHER -> uuid

\* AuthManager.get_minecraft_auth_data, after its ensure_valid_token: os is
\* the heap then, act the active account
get_minecraft_auth_data(os, act) ==
    IF act = None
    THEN [username |-> "Player", uuid |-> "", token |-> "", user_type |-> "legacy"]
    ELSE [username |-> os[act].username,
          uuid |-> without_dashes(os[act].uuid),
          token |-> os[act].access_token,
          user_type |-> IF os[act].type = "microsoft" THEN "msa"
                        ELSE IF os[act].type = "elyby" THEN "mojang"
                        ELSE "legacy"]

\* ElybyAPI.get_jvm_args_for_injection: the agent and its side flag, nothing
\* when authlib-injector could not be downloaded
InjectionOutcomes == {"available", "unavailable", "raises"}

get_jvm_args_for_injection(injection) ==
    IF injection = "available"
    THEN <<"-javaagent:authlib-injector.jar=ely.by", "-Dauthlibinjector.side=client">>
    ELSE <<>>

\* the tuning flags launch_game always passes
GCFlags ==
    <<"-XX:+UseG1GC", "-XX:+ParallelRefProcEnabled", "-XX:MaxGCPauseMillis=200",
      "-XX:+UnlockExperimentalVMOptions", "-XX:+DisableExplicitGC",
      "-XX:+AlwaysPreTouch", "-XX:G1NewSizePercent=30",
      "-XX:G1MaxNewSizePercent=40", "-XX:G1HeapRegionSize=8M",
      "-XX:G1ReservePercent=20", "-XX:G1HeapWastePercent=5",
      "-XX:G1MixedGCCountTarget=4", "-XX:InitiatingHeapOccupancyPercent=15",
      "-XX:G1MixedGCLiveThresholdPercent=90",
      "-XX:G1RSetUpdatingPauseTimePercent=5", "-XX:SurvivorRatio=32",
      "-XX:+PerfDisableSharedMem", "-XX:MaxTenuringThreshold=1">>

MemoryFlags(ram_min, ram_max) ==
    <<"-Xms" \o ToString(ram_min) \o "G", "-Xmx" \o ToString(ram_max) \o "G">>

\* the argument list with the agent put behind everything else
jvm_args_AgentLast(ram_min, ram_max, extra_jvm_args, use_elyby, injection) ==
    MemoryFlags(ram_min, ram_max) \o GCFlags \o extra_jvm_args
        \o (IF use_elyby THEN get_jvm_args_for_injection(injection) ELSE <<>>)

\* launch_game: the JVM arguments; an exception of the injection set-up is
\* caught and leaves the list as it was
jvm_args(ram_min, ram_max, extra_jvm_args, use_elyby, injection) ==
    (IF use_elyby THEN get_jvm_args_for_injection(injection) ELSE <<>>)
        \o MemoryFlags(ram_min, ram_max) \o GCFlags \o extra_jvm_args

\* LauncherCore.launch_game: the options handed to
\* mll.command.get_minecraft_command and the process started from them, or
\* the RuntimeError when no Java is found
launch_game(version, username, java, ram_min, ram_max, extra_jvm_args, game_directory, use_elyby, uuid, access_token, injection) ==
    IF java = "missing"
    THEN UNCHANGED launched
    ELSE launched' =
            [version_id |-> version,
             game_directory |-> game_directory,
             options |-> [username |-> username, uuid |-> uuid,
                          token |-> access_token,
                          gameDirectory |-> game_directory,
                          jvmArguments |-> jvm_args(ram_min, ram_max, extra_jvm_args,
                                                    use_elyby, injection)],
             cwd |-> game_directory,
             ram_min |-> ram_min, ram_max |-> ram_max,
             extra_jvm_args |-> extra_jvm_args,
             use_elyby |-> use_elyby]

\* the launch thread of MainWindow._launch_game with an account store that
\* may hold an active account: the token is made valid, the directory is
\* made, and the game is started with the credentials of the account
launch(version, custom_game_dir, java, ram, resp, injection) ==
    LET game_dir == IF custom_game_dir /= "" THEN custom_game_dir
                    ELSE get_minecraft_dir
        auth_data == get_minecraft_auth_data(objs', active)
    IN  /\ IF active = None
           THEN UNCHANGED authVars
           ELSE ensure_valid_token(active, resp)
        /\ dirs' = dirs \cup {game_dir}
        /\ launch_game(version, auth_data.username, java, ram[1], ram[2], <<>>,
                       game_dir, active /= None /\ objs[active].type = "elyby",
                       auth_data.uuid, auth_data.token, injection)

JavaOutcomes == {"found", "missing"}

\* Config: ram_min and ram_max as the settings leave them
ConfigRam == <<2, 4>>

\* launch_game leaves everything but the started process alone
LaunchOnly ==
    UNCHANGED <<authVars, installed, profiles, selected_version, is_downloading,
                createWindow, modsWindow, threads, started, finished,
                loginVars, profileVars, archiveVars>>

\* the account store, the clock and the launch thread
LaunchNext ==
    \/ StoreCall({"Steve"}, {"u1"}, Tokens, {"r1"}, MaxStoreObj)
    \/ \E d \in TickSteps : last = Idle /\ Tick(d) /\ StoreOnly
    \/ Return /\ StoreOnly
    \/ \E d \in {"", "profiles/My_Pack"}, j \in JavaOutcomes,
          r \in RefreshResponses({"t2"}, {""}), i \in InjectionOutcomes :
          /\ last = Idle
          /\ launch("1.20.1", d, j, ConfigRam, r, i)
          /\ UNCHANGED <<installed, profiles, selected_version, is_downloading,
                         createWindow, modsWindow, threads, started, finished,
                         loginVars, profiles_file, returned, archiveVars>>

SpecLaunch == Init /\ [][LaunchNext]_vars

\* launch_game alone, on memory settings, extra arguments and injection
RamSettings ==
    {<<1, 2>>, <<1, 4>>, <<1, 8>>, <<2, 2>>, <<2, 4>>, <<2, 8>>, <<4, 4>>, <<4, 8>>}

ExtraJvmArgs ==
    {<<>>, <<"-Dfml.readTimeout=90">>, <<"-XX:+UseStringDeduplication">>,
     <<"-Dfml.readTimeout=90", "-XX:+UseStringDeduplication">>,
     <<"-XX:+UseStringDeduplication", "-Dfml.readTimeout=90">>}

JvmArgsNext ==
    \E j \in JavaOutcomes, ram \in RamSettings, x \in ExtraJvmArgs,
       e \in BOOLEAN, i \in InjectionOutcomes :
        /\ launch_game("1.20.1", "Player", j, ram[1], ram[2], x,
                       get_minecraft_dir, e, "", "", i)
        /\ LaunchOnly

SpecJvmArgs == Init /\ [][JvmArgsNext]_vars

\* ------------------------------------------- mods and their dependencies
\* CurseForgeAPI._dep_type
_dep_type(relation_type) ==
    CASE relation_type = 1 -> "embedded"
      [] relation_type = 2 -> "optional"
      [] relation_type = 3 -> "required"
      [] relation_type = 4 -> "tool"
      [] relation_type = 5 -> "incompatible"
      [] relation_type = 6 -> "include"
      [] OTHER -> "unknown"

\* the dependency types a registry reports: Modrinth's dependency_type and
\* CurseForge's relationType through _dep_type
DepTypes ==
    {"required", "optional", "incompatible", "embedded"}
        \cup {_dep_type(n) : n \in 0..7}

Dep(id, type) == [id |-> id, type |-> type]

\* ModVersion, as far as the install reads it
ModVersion(id, file_name, dependencies) ==
    [id |-> id, file_name |-> file_name, dependencies |-> dependencies]

\* the versions a registry returns for a mod, the game version and the
\* loader, latest first: mod "b" may need "c", and either may have none
Registries ==
    {[m \in {"b", "c"} |-> IF m = "b" THEN b ELSE c] :
        b \in {<<>>} \cup
              {<<ModVersion("b2", "b-2.jar", d), ModVersion("b1", "b-1.jar", <<>>)>> :
                  d \in {<<>>, <<Dep("c", "required")>>, <<Dep("c", "optional")>>}},
        c \in {<<>>, <<ModVersion("c1", "c-1.jar", <<>>)>>}}

\* the dependency lists of the chosen version
ChosenDependencies ==
    {<<>>} \cup {<<Dep("b", t)>> : t \in DepTypes}
           \cup {<<Dep("b", t), Dep("c", u)>> : t, u \in DepTypes}

\* ModSourceManager.get_mod_versions on the registry of the chosen version
get_mod_versions(registry, mod_id) == registry[mod_id]

\* ModSourceManager.download_mod: the path written, or nothing when the
\* download is one of those that fail
download_mod(version, failing) ==
    IF version.id \in failing THEN <<>> ELSE <<version.file_name>>

\* the dependency test that takes everything but "optional"
IsRequired_NotOptional(dep) == dep.type /= "optional"

\* dep.get("type") == "required"
IsRequired(dep) == dep.type = "required"

\* the loop of install_mod_with_dependencies over the first n dependencies
\* of the chosen version
RECURSIVE InstalledDependencies(_, _, _, _)
InstalledDependencies(version, registry, failing, n) ==
    IF n = 0 THEN <<>>
    ELSE LET dep == version.dependencies[n]
             dep_versions == get_mod_versions(registry, dep.id)
         IN  InstalledDependencies(version, registry, failing, n - 1)
                 \o (IF IsRequired(dep) /\ dep_versions /= <<>>
                     THEN download_mod(dep_versions[1], failing)
                     ELSE <<>>)

\* ModSourceManager.install_mod_with_dependencies: the files installed
install_mod_with_dependencies(version, registry, failing) ==
    returned' =
        [op |-> "install_mod_with_dependencies", id |-> version.id,
         version |-> version, registry |-> registry, failing |-> failing,
         ret |-> download_mod(version, failing)
                     \o InstalledDependencies(version, registry, failing,
                                              Len(version.dependencies))]

ModsNext ==
    \E d \in ChosenDependencies, registry \in Registries,
       failing \in SUBSET {"a1", "b2"} :
        /\ returned = NoReturn
        /\ install_mod_with_dependencies(ModVersion("a1", "a-1.jar", d),
                                         registry, failing)
        /\ UNCHANGED <<authVars, installVars, loginVars, dirs, profiles_file,
                       archiveVars>>

SpecMods == Init /\ [][ModsNext]_vars

\* --------------------------------------- export and import of a profile
\* the folders export_profile can include
ExportFolders == {"mods", "resourcepacks", "shaderpacks", "config"}

\* a ZIP file that is no valid archive
TornArchive == [status |-> "torn"]

\* ProfileManager.export_profile with the include_* flags of the folders in
\* included; written tells whether the ZIP file could be written
export_profile(profile_id, included, written) ==
    LET game_dir == IF profile_id \in DOMAIN profiles
                    THEN profiles[profile_id].game_directory ELSE ""
    IN  IF profile_id \notin DOMAIN profiles \/ game_dir = "" \/ game_dir \notin dirs
        THEN /\ returned' = ReturnedFrom("export_profile", profile_id, FALSE)
             /\ UNCHANGED archive
        ELSE IF ~written
        THEN /\ returned' = ReturnedFrom("export_profile", profile_id, FALSE)
             /\ archive' = TornArchive
        ELSE LET profile == profiles[profile_id]
             IN  /\ archive' =
                        [status |-> "written",
                         manifest |-> [name |-> profile.name,
                                       minecraft_version |-> profile.minecraft_version,
                                       loader_type |-> profile.loader_type,
                                       loader_version |-> profile.loader_version,
                                       included |-> included],
                         entries |-> {<<f[2], f[3]>> :
                                         f \in {g \in files : /\ g[1] = game_dir
                                                              /\ g[2] \in included}}]
                 /\ returned' = ReturnedFrom("export_profile", profile_id, TRUE)

\* import_profile: the name with the first counter from counter on that
\* makes it differ from every name of existing_names
RECURSIVE Suffixed(_, _, _)
Suffixed(base_name, existing_names, counter) ==
    LET profile_name == base_name \o " (" \o ToString(counter) \o ")"
    IN  IF profile_name \in existing_names
        THEN Suffixed(base_name, existing_names, counter + 1)
        ELSE profile_name

\* import_profile without the search for a free name
ResolveName_Keep(name, existing_names) == name

\* import_profile: the name the imported profile gets
ResolveName(name, existing_names) ==
    IF name \in existing_names THEN Suffixed(name, existing_names, 1) ELSE name

\* how the extraction of the entries of an archive ends: every entry is
\* written, or the first one raises (a full disk, a path that cannot be
\* made)
ExtractOutcomes == {"ok", "fails"}

\* ProfileManager.import_profile of the ZIP file at the export path; id is
\* the id create_profile draws, new_name "" is None, x the outcome of the
\* extraction; the call that returns a profile is recorded with the name
\* it was given, and a call that fails in the extraction, after
\* create_profile, with the id that was drawn
import_profile(id, new_name, w, x) ==
    IF archive.status /= "written"
    THEN /\ returned' = [ReturnedFrom("import_profile", "", FALSE)
                             EXCEPT !.op = "import_profile failed"]
         /\ UNCHANGED <<profiles, profiles_file, dirs, files>>
    ELSE LET profile_data == archive.manifest
             profile_name ==
                 ResolveName(IF new_name /= "" THEN new_name ELSE profile_data.name,
                             {profiles[i].name : i \in DOMAIN profiles})
         IN  /\ create_profile(id, profile_name, profile_data.minecraft_version,
                               profile_data.loader_type, profile_data.loader_version,
                               "", w)
             /\ IF x = "fails" /\ archive.entries /= {}
                THEN /\ UNCHANGED files
                     /\ returned' = [ReturnedFrom("import_profile", id, FALSE)
                                         EXCEPT !.op = "import_profile failed"]
                ELSE /\ files' = files \cup
                            {<<profiles'[id].game_directory, e[1], e[2]>> :
                                e \in archive.entries}
                     /\ returned' = [op |-> "import_profile", id |-> id, ret |-> TRUE,
                                     new_name |-> new_name]

\* ProfileManager.get_export_info: the file count of each folder, with
\* the stores ps, the directories ds and the files fs
get_export_info(ps, ds, fs, profile_id) ==
    IF \/ profile_id \notin DOMAIN ps
       \/ ps[profile_id].game_directory = ""
       \/ ps[profile_id].game_directory \notin ds
    THEN [folder \in ExportFolders |-> 0]
    ELSE [folder \in ExportFolders |->
             Cardinality({f \in fs : /\ f[1] = ps[profile_id].game_directory
                                     /\ f[2] = folder})]

\* the game, a mod install or the user puts a file into a profile folder
PutFile(directory, folder, name) ==
    /\ directory \in dirs \ {get_minecraft_dir}
    /\ <<directory, folder, name>> \notin files
    /\ files' = files \cup {<<directory, folder, name>>}
    /\ UNCHANGED archive

\* str(uuid.uuid4())[:8] when it is an id no profile has: which one makes
\* no difference, so it is the first of ids that is free; the draw of an
\* id that is in use is followed in SpecCreate
FreshIds(ids) ==
    {ids[k] : k \in {k \in DOMAIN ids :
                        /\ ids[k] \notin DOMAIN profiles
                        /\ \A j \in 1..(k - 1) : ids[j] \in DOMAIN profiles}}

ArchiveIds == <<"p1", "p2", "p3">>
ArchiveNames == {"My Pack", "My Pack 1"}

\* the screen and the accounts stay as they are
StoreOfProfilesOnly ==
    UNCHANGED <<authVars, loginVars, installed, selected_version, is_downloading,
                createWindow, modsWindow, threads, started, finished, launched>>

ArchiveNext ==
    \/ \E id \in FreshIds(ArchiveIds), n \in ArchiveNames :
          /\ Cardinality(DOMAIN profiles) < MaxCreated
          /\ create_profile(id, n, "1.20.1", "", "", "", "ok")
          /\ UNCHANGED <<returned, archiveVars>>
          /\ StoreOfProfilesOnly
    \/ \E d \in dirs, folder \in {"mods", "shaderpacks"} :
          /\ Cardinality(files) < MaxFiles
          /\ PutFile(d, folder, "a")
          /\ UNCHANGED <<profiles, profileVars>>
          /\ StoreOfProfilesOnly
    \/ \E id \in {ArchiveIds[k] : k \in DOMAIN ArchiveIds},
          included \in SUBSET ExportFolders, written \in BOOLEAN :
          /\ export_profile(id, included, written)
          /\ UNCHANGED <<profiles, dirs, profiles_file, files>>
          /\ StoreOfProfilesOnly
    \/ \E id \in FreshIds(ArchiveIds), n \in {"", "My Pack 1"},
          x \in ExtractOutcomes :
          /\ import_profile(id, n, "ok", x)
          /\ UNCHANGED archive
          /\ StoreOfProfilesOnly

SpecArchive == Init /\ [][ArchiveNext]_vars

\* ------------------------------ the profile store: mods, codes, updates
\* Python's None where it is told apart from the empty string
PyNone == "None"

\* an entry of Profile.installed_mods
InstalledMod(filename, source, mod_id, mod_version, name) ==
    [filename |-> filename, source |-> source, mod_id |-> mod_id,
     version_id |-> mod_version, name |-> name]

\* ProfileManager.add_installed_mod: the entry with the file name is
\* overwritten, or a new one is appended
add_installed_mod(profile_id, filename, source, mod_id, mod_version, name, w) ==
    IF profile_id \notin DOMAIN profiles
    THEN UNCHANGED <<profiles, profiles_file>>
    ELSE LET mods == profiles[profile_id].installed_mods
             mod == InstalledMod(filename, source, mod_id, mod_version, name)
             hits == {i \in DOMAIN mods : mods[i].filename = filename}
             first == CHOOSE i \in hits : \A j \in hits : i <= j
         IN  /\ profiles' =
                    [profiles EXCEPT ![profile_id].installed_mods =
                        IF hits /= {} THEN [mods EXCEPT ![first] = mod]
                        ELSE Append(mods, mod)]
             /\ _save_profiles(profiles', w)

\* ProfileManager.remove_installed_mod
remove_installed_mod(profile_id, filename, w) ==
    IF profile_id \notin DOMAIN profiles
    THEN UNCHANGED <<profiles, profiles_file>>
    ELSE LET Other(m) == m.filename /= filename
         IN  /\ profiles' =
                    [profiles EXCEPT ![profile_id].installed_mods = SelectSeq(@, Other)]
             /\ _save_profiles(profiles', w)

\* s[:n] on the names of the model
LongName == "Reeses Sodium Options Unofficial Port"

Truncated(s, n) ==
    IF s = LongName /\ n = 30 THEN "Reeses Sodium Options Unoffici" ELSE s

\* generate_manifest_code: the mods that go into the code
Shareable(mod) == mod.source \in {"modrinth", "curseforge"} /\ mod.mod_id /= ""

\* generate_manifest_code: the entry of a mod; the base64 of the gzip of the
\* JSON text is taken as the manifest it encodes, behind the prefix
RECURSIVE shareable_mods(_)
shareable_mods(mods) ==
    IF mods = <<>> THEN <<>>
    ELSE (IF Shareable(Head(mods))
          THEN <<[id |-> Head(mods).mod_id,
                  src |-> IF Head(mods).source = "modrinth" THEN "mr" ELSE "cf",
                  v |-> Head(mods).version_id,
                  n |-> Truncated(Head(mods).name, 30)]>>
          ELSE <<>>) \o shareable_mods(Tail(mods))

\* mod.get("name", "")[:30] raises TypeError when the name stored is None:
\* the key is always there, and the slice is outside the try
SliceRaises(mods) ==
    \E i \in DOMAIN mods : Shareable(mods[i]) /\ mods[i].name = PyNone

\* ProfileManager.generate_manifest_code: the code returned, as a sequence
\* of one code, or of none for None and for a call that raised
generate_manifest_code(profile_id) ==
    returned' =
        IF profile_id \notin DOMAIN profiles
        THEN [op |-> "generate_manifest_code", id |-> profile_id, ret |-> <<>>,
              raised |-> FALSE]
        ELSE IF SliceRaises(profiles[profile_id].installed_mods)
        THEN [op |-> "generate_manifest_code", id |-> profile_id, ret |-> <<>>,
              raised |-> TRUE]
        ELSE LET profile == profiles[profile_id]
             IN  [op |-> "generate_manifest_code", id |-> profile_id,
                  raised |-> FALSE,
                  ret |-> <<[prefix |-> "CL1-",
                             manifest |->
                                 [v |-> 1,
                                  name |-> Truncated(profile.name, 50),
                                  mc |-> profile.minecraft_version,
                                  loader |-> profile.loader_type,
                                  loader_v |-> profile.loader_version,
                                  mods |-> shareable_mods(profile.installed_mods)]]>>]

\* parse_manifest_code: the mods of the code, expanded
RECURSIVE expanded_mods(_)
expanded_mods(mods) ==
    IF mods = <<>> THEN <<>>
    ELSE <<[mod_id |-> Head(mods).id,
            source |-> IF Head(mods).src = "mr" THEN "modrinth" ELSE "curseforge",
            version_id |-> Head(mods).v,
            name |-> Head(mods).n]>> \o expanded_mods(Tail(mods))

\* ProfileManager.parse_manifest_code on a code that generate_manifest_code
\* made
parse_manifest_code(code) ==
    [name |-> code.manifest.name,
     minecraft_version |-> code.manifest.mc,
     loader_type |-> code.manifest.loader,
     loader_version |-> code.manifest.loader_v,
     mods |-> expanded_mods(code.manifest.mods)]

\* update_profile that moves the directory along with a new name
update_profile_Renaming(profile_id, kwargs, w) ==
    /\ returned' = [op |-> "update_profile", id |-> profile_id,
                    ret |-> profile_id \in DOMAIN profiles, kwargs |-> kwargs]
    /\ IF profile_id \in DOMAIN profiles
       THEN /\ profiles' =
                   [profiles EXCEPT ![profile_id] =
                       [key \in DOMAIN @ |->
                           IF key \in DOMAIN kwargs THEN kwargs[key]
                           ELSE IF key = "game_directory" /\ "name" \in DOMAIN kwargs
                           THEN get_profile_directory(kwargs["name"])
                           ELSE @[key]]]
            /\ _save_profiles(profiles', w)
       ELSE UNCHANGED <<profiles, profiles_file>>

\* ProfileManager.update_profile: every keyword that names an attribute is
\* assigned; the call is recorded with its keywords
update_profile(profile_id, kwargs, w) ==
    /\ returned' = [op |-> "update_profile", id |-> profile_id,
                    ret |-> profile_id \in DOMAIN profiles, kwargs |-> kwargs]
    /\ IF profile_id \in DOMAIN profiles
       THEN /\ profiles' =
                   [profiles EXCEPT ![profile_id] =
                       [key \in DOMAIN @ |->
                           IF key \in DOMAIN kwargs THEN kwargs[key] ELSE @[key]]]
            /\ _save_profiles(profiles', w)
       ELSE UNCHANGED <<profiles, profiles_file>>

\* the sort key of get_all_profiles, p.last_played or "": a precedes b
KeyLess_Reversed(a, b) ==
    \/ a /= <<>> /\ b = <<>>
    \/ a /= <<>> /\ b /= <<>> /\ a[1] > b[1]

KeyLess(a, b) ==
    \/ a = <<>> /\ b /= <<>>
    \/ a /= <<>> /\ b /= <<>> /\ a[1] < b[1]

\* list.sort(key, reverse=True) is stable: p goes behind every entry whose
\* key is not less than its own
RECURSIVE InsertedDescending(_, _)
InsertedDescending(sorted, p) ==
    IF sorted = <<>> THEN <<p>>
    ELSE IF KeyLess(Head(sorted).last_played, p.last_played)
    THEN <<p>> \o sorted
    ELSE <<Head(sorted)>> \o InsertedDescending(Tail(sorted), p)

RECURSIVE SortedDescending(_)
SortedDescending(values) ==
    IF values = <<>> THEN <<>>
    ELSE InsertedDescending(SortedDescending(SubSeq(values, 1, Len(values) - 1)),
                            values[Len(values)])

\* the orders in which the dict ps may hold its profiles
Orders(ps) ==
    {order \in [1..Cardinality(DOMAIN ps) -> DOMAIN ps] :
        \A i, j \in DOMAIN order : i /= j => order[i] /= order[j]}

\* ProfileManager.get_all_profiles on the dict ps held in this order, as the
\* ids of the profiles
get_all_profiles(ps, order) ==
    LET sorted == SortedDescending([i \in DOMAIN order |-> ps[order[i]]])
    IN  [i \in DOMAIN sorted |-> sorted[i].id]

\* ---------------------------------- the share code of a profile with mods
ModFiles == {"a.jar", "b.jar"}
ModOrigins == {<<"modrinth", "m1">>, <<"curseforge", "c1">>, <<"local", "">>,
               <<"modrinth", "">>}
ModNames == {PyNone, "Sodium", LongName}

ShareNext ==
    \/ \E id \in FreshIds(<<"p1">>), l \in {"", "fabric"} :
          /\ create_profile(id, "My Pack", "1.20.1", l, LoaderVersionOf(l, "1.20.1"),
                            "", "ok")
          /\ UNCHANGED <<returned, archiveVars>>
          /\ StoreOfProfilesOnly
    \/ \E id \in {"p1"}, f \in ModFiles, o \in ModOrigins, n \in ModNames :
          /\ add_installed_mod(id, f, o[1], o[2], "v1", n, "ok")
          /\ UNCHANGED <<dirs, returned, archiveVars>>
          /\ StoreOfProfilesOnly
    \/ \E id \in {"p1"}, f \in ModFiles :
          /\ remove_installed_mod(id, f, "ok")
          /\ UNCHANGED <<dirs, returned, archiveVars>>
          /\ StoreOfProfilesOnly
    \/ \E id \in {"p1"} :
          /\ generate_manifest_code(id)
          /\ UNCHANGED <<profiles, dirs, profiles_file, archiveVars>>
          /\ StoreOfProfilesOnly

SpecShare == Init /\ [][ShareNext]_vars

\* ------------------------------------------- the list of the profiles
ListIds == <<"p1", "p2", "p3">>

\* what the latest get_all_profiles returned
Listed(ids) == [op |-> "get_all_profiles", id |-> "", ret |-> ids]

ListNext ==
    \/ \E id \in FreshIds(ListIds) :
          /\ create_profile(id, "My Pack", "1.20.1", "", "", "", "ok")
          /\ UNCHANGED <<returned, archiveVars>>
          /\ StoreOfProfilesOnly
    \/ \E id \in {ListIds[k] : k \in DOMAIN ListIds} :
          /\ mark_played(id, "ok")
          /\ UNCHANGED <<dirs, returned, archiveVars>>
          /\ StoreOfProfilesOnly
    \/ \E d \in {1} :
          /\ Tick(d)
          /\ UNCHANGED <<installVars, loginVars, profileVars, archiveVars>>
    \/ \E order \in Orders(profiles) :
          /\ returned' = Listed(get_all_profiles(profiles, order))
          /\ UNCHANGED <<profiles, dirs, profiles_file, archiveVars>>
          /\ StoreOfProfilesOnly

SpecList == Init /\ [][ListNext]_vars

\* ------------------------------------- the profile store, every operation
ApiIds == <<"p1", "p2">>

\* the keywords of the update_profile calls
UpdateKwargs ==
    {[name |-> "My Pack 1"], [loader_type |-> "fabric"],
     [game_directory |-> "profiles/custom"]}

\* creation, update, deletion, export and import; the archives that are
\* imported are of profiles with a name of ArchiveNames
ApiNext ==
    \/ \E id \in FreshIds(ApiIds), l \in {"", "fabric"} :
          /\ create_profile(id, "My Pack", "1.20.1", l, LoaderVersionOf(l, "1.20.1"),
                            "", "ok")
          /\ UNCHANGED <<returned, archiveVars>>
          /\ StoreOfProfilesOnly
    \/ \E id \in {ApiIds[k] : k \in DOMAIN ApiIds}, kwargs \in UpdateKwargs :
          /\ update_profile(id, kwargs, "ok")
          /\ UNCHANGED <<dirs, archiveVars>>
          /\ StoreOfProfilesOnly
    \/ \E id \in {ApiIds[k] : k \in DOMAIN ApiIds} :
          /\ delete_profile(id, "ok")
          /\ UNCHANGED <<dirs, archiveVars>>
          /\ StoreOfProfilesOnly
    \/ \E id \in {ApiIds[k] : k \in DOMAIN ApiIds} :
          /\ export_profile(id, {"mods"}, TRUE)
          /\ UNCHANGED <<profiles, dirs, profiles_file, files>>
          /\ StoreOfProfilesOnly
    \/ \E id \in FreshIds(ApiIds) :
          /\ archive.status = "written" => archive.manifest.name \in ArchiveNames
          /\ import_profile(id, "", "ok", "ok")
          /\ UNCHANGED archive
          /\ StoreOfProfilesOnly

SpecApi == Init /\ [][ApiNext]_vars

\* every operation on a profile but the import
StableNext ==
    \/ \E id \in FreshIds(ApiIds), l \in {"", "fabric"} :
          /\ create_profile(id, "My Pack", "1.20.1", l, LoaderVersionOf(l, "1.20.1"),
                            "", "ok")
          /\ UNCHANGED <<returned, archiveVars>>
          /\ StoreOfProfilesOnly
    \/ \E id \in {ApiIds[k] : k \in DOMAIN ApiIds}, kwargs \in UpdateKwargs :
          /\ update_profile(id, kwargs, "ok")
          /\ UNCHANGED <<dirs, archiveVars>>
          /\ StoreOfProfilesOnly
    \/ \E id \in {ApiIds[k] : k \in DOMAIN ApiIds} :
          /\ delete_profile(id, "ok")
          /\ UNCHANGED <<dirs, archiveVars>>
          /\ StoreOfProfilesOnly
    \/ \E id \in {ApiIds[k] : k \in DOMAIN ApiIds} :
          /\ mark_played(id, "ok")
          /\ UNCHANGED <<dirs, returned, archiveVars>>
          /\ StoreOfProfilesOnly
    \/ \E id \in {ApiIds[k] : k \in DOMAIN ApiIds} :
          /\ add_installed_mod(id, "a.jar", "modrinth", "m1", "v1", "Sodium", "ok")
          /\ UNCHANGED <<dirs, returned, archiveVars>>
          /\ StoreOfProfilesOnly
    \/ \E id \in {ApiIds[k] : k \in DOMAIN ApiIds} :
          /\ remove_installed_mod(id, "a.jar", "ok")
          /\ UNCHANGED <<dirs, returned, archiveVars>>
          /\ StoreOfProfilesOnly
    \/ \E id \in {ApiIds[k] : k \in DOMAIN ApiIds} :
          /\ generate_manifest_code(id)
          /\ UNCHANGED <<profiles, dirs, profiles_file, archiveVars>>
          /\ StoreOfProfilesOnly
    \/ \E id \in {ApiIds[k] : k \in DOMAIN ApiIds} :
          /\ export_profile(id, {"mods"}, TRUE)
          /\ UNCHANGED <<profiles, dirs, profiles_file, files>>
          /\ StoreOfProfilesOnly

SpecStable == Init /\ [][StableNext]_vars

\* ------------------------------- installs started from the main window
\* MainWindow.__init__ with a profiles.json of one profile and an empty
\* versions directory
PlayInit ==
    /\ AuthInit /\ LoginInit /\ ArchiveInit
    /\ profiles \in {ps \in [{"p1"} -> StoredProfiles("p1")] :
                       ps["p1"].loader_version \in
                           StoredLoaderVersions(ps["p1"].loader_type,
                                                ps["p1"].minecraft_version)}
    /\ installed = {}
    /\ dirs = {get_minecraft_dir, profiles["p1"].game_directory}
    /\ profiles_file = ProfilesDocument(profiles)
    /\ returned = NoReturn
    /\ selected_version = ""
    /\ is_downloading = FALSE
    /\ createWindow = "closed"
    /\ modsWindow = ClosedMods
    /\ threads = <<>>
    /\ started = 0
    /\ finished = NoThread
    /\ launched = NoLaunch

\* LauncherCore.install_version or a loader installer returns in a thread
InstallerReturns ==
    \/ \E t \in DOMAIN threads, ok \in BOOLEAN : install_version(t, ok) /\ UiOnly
    \/ \E t \in DOMAIN threads, o \in InstallerOutcomes :
          install_loader(t, o) /\ UiOnly

\* the main loop runs a callback an install thread posted with after(0, ...)
CallbackRuns ==
    \/ \E t \in DOMAIN threads, yes \in BOOLEAN, w \in {"ok"} :
          install_profile_callback(t, yes, w) /\ UiOnly
    \/ \E t \in DOMAIN threads : install_version_callback(t) /\ UiOnly

PlayNext ==
    \/ \E v \in McVersions \cup installed : _select_version(v) /\ UiOnly
    \/ \E id \in ProfileIds : _select_profile(id) /\ UiOnly
    \/ \E w \in {"ok"} : _play(w) /\ UiOnly
    \/ \E t \in DOMAIN threads, ok \in BOOLEAN : install_version(t, ok) /\ UiOnly
    \/ \E t \in DOMAIN threads, o \in InstallerOutcomes :
          install_loader(t, o) /\ UiOnly
    \/ \E t \in DOMAIN threads, yes \in BOOLEAN, w \in {"ok"} :
          install_profile_callback(t, yes, w) /\ UiOnly
    \/ \E t \in DOMAIN threads : install_version_callback(t) /\ UiOnly

SpecPlay == PlayInit /\ [][PlayNext]_vars

\* the installer calls return and the main loop of the window keeps
\* running the callbacks posted to it
SpecPlayFair ==
    SpecPlay /\ WF_vars(InstallerReturns) /\ WF_vars(CallbackRuns)

\* --------------------------------------------- Account.is_expired alone
AccountTypes == {"offline", "elyby", "microsoft"}

\* values of expires_at and of time.time(), in seconds
ExpiryTimes == {0, 59, 60, 61, 120, TokenLifetime}
ClockTimes == {0, 1, 59, 60, 61, TokenLifetime - ExpiryBuffer, TokenLifetime}

ExpiryNext ==
    \E type \in AccountTypes, expires_at \in ExpiryTimes, t \in ClockTimes :
        /\ returned' =
               [op |-> "is_expired", id |-> "",
                ret |-> is_expired(Account(type, "Steve", "u1", "t1", "", expires_at, ""), t),
                type |-> type, expires_at |-> expires_at, now |-> t]
        /\ UNCHANGED <<authVars, installVars, loginVars, dirs, profiles_file,
                       archiveVars>>

SpecExpiry == Init /\ [][ExpiryNext]_vars

\* ------------------------------------- the account store over a restart
\* AuthManager.__init__ of the next run, with _load_accounts: the accounts
\* of the document in its order, and as active account the first of them
\* whose uuid is the "active" of the document, when that is not empty; a
\* file that is no JSON document is logged and leaves the store empty
_load_accounts ==
    LET loaded == IF file.status = "written" THEN file.accounts ELSE <<>>
        active_uuid == IF file.status = "written" THEN file.active ELSE "null"
        hits == {i \in 1..Len(loaded) : loaded[i].uuid = active_uuid}
    IN  /\ objs' = loaded
        /\ accounts' = [i \in 1..Len(loaded) |-> i]
        /\ active' = IF active_uuid \notin {"null", ""} /\ hits /= {}
                     THEN CHOOSE i \in hits : \A j \in hits : i <= j
                     ELSE None
        /\ last' = Call("load", file.status, 0, TRUE, 0, "none")
        /\ UNCHANGED <<file, now, ticks>>

\* the player ids a provider answers with; "" stands for an answer without
\* the id of the selected profile
ReloadIds == {"u1", ""}

ReloadNext ==
    \/ StoreCall({"Steve"}, ReloadIds, {"t1"}, {"r1"}, MaxReloadObj)
    \/ Return /\ StoreOnly
    \/ last = Idle /\ _load_accounts /\ StoreOnly

SpecReload == Init /\ [][ReloadNext]_vars

\* ------------------- install_mod_with_dependencies, one iteration at a time
\* the registry of a mod "a" that may need itself and a mod "b" that may
\* need itself or "a": what the registry returns for "a" is the chosen
\* version
CyclicRegistries(chosen) ==
    {[m \in {"a", "b"} |-> IF m = "a" THEN a ELSE b] :
        a \in {<<>>, <<chosen>>},
        b \in {<<>>} \cup
              {<<ModVersion("b1", "b-1.jar", d)>> :
                  d \in {<<>>, <<Dep("a", "required")>>, <<Dep("b", "required")>>}}}

CyclicDeps == {Dep("a", "required"), Dep("b", "required"), Dep("b", "optional")}

CyclicDependencies ==
    {<<>>} \cup {<<d>> : d \in CyclicDeps} \cup {<<d, e>> : d, e \in CyclicDeps}

\* a loop that goes on with the dependencies of the version it installed
Remaining_Recursive(rest, dep_version) == rest \o dep_version.dependencies

\* `for dep in version.dependencies`: what is left to visit once dep_version
\* has been installed for the dependency at the head
Remaining(rest, dep_version) == rest

\* the call starts: the chosen version is downloaded
StartInstall(version, registry, failing) ==
    /\ returned = NoReturn
    /\ returned' =
           [op |-> "installing", id |-> version.id, version |-> version,
            registry |-> registry, failing |-> failing,
            todo |-> version.dependencies, downloads |-> 1,
            ret |-> download_mod(version, failing)]

\* one iteration of the loop over the dependencies
VisitDependency ==
    /\ returned.op = "installing"
    /\ returned.todo /= <<>>
    /\ returned.downloads < MaxDownloads
    /\ LET dep == Head(returned.todo)
           dep_versions == get_mod_versions(returned.registry, dep.id)
       IN  returned' =
               IF IsRequired(dep) /\ dep_versions /= <<>>
               THEN [returned EXCEPT
                        !.todo = Remaining(Tail(@), dep_versions[1]),
                        !.downloads = @ + 1,
                        !.ret = @ \o download_mod(dep_versions[1], returned.failing)]
               ELSE [returned EXCEPT !.todo = Tail(@)]

\* `return installed`
ReturnInstalled ==
    /\ returned.op = "installing"
    /\ returned.todo = <<>>
    /\ returned' = [returned EXCEPT !.op = "install_mod_with_dependencies"]

ModsOnly ==
    UNCHANGED <<authVars, installVars, loginVars, dirs, profiles_file, archiveVars>>

ModLoopNext ==
    \/ \E d \in CyclicDependencies, failing \in SUBSET {"a1", "b1"} :
          \E registry \in CyclicRegistries(ModVersion("a1", "a-1.jar", d)) :
              /\ StartInstall(ModVersion("a1", "a-1.jar", d), registry, failing)
              /\ ModsOnly
    \/ VisitDependency /\ ModsOnly
    \/ ReturnInstalled /\ ModsOnly

SpecModLoop == Init /\ [][ModLoopNext]_vars

\* the calls of get_mod_versions and download_mod return
SpecModLoopFair ==
    SpecModLoop /\ WF_vars(VisitDependency /\ ModsOnly)
                /\ WF_vars(ReturnInstalled /\ ModsOnly)

\* ----------------------------------------- create_profile and its ids
\* the values of str(uuid.uuid4())[:8], eight hexadecimal digits
ShortIds == {"p1", "p2", "p3"}

\* ProfileManager.create_profile with the id it draws, and the profile it
\* returns recorded by its id
CreateCall(id, name, loader_type, w) ==
    /\ create_profile(id, name, "1.20.1", loader_type,
                      LoaderVersionOf(loader_type, "1.20.1"), "", w)
    /\ returned' = ReturnedFrom("create_profile", id, TRUE)

CreateNext ==
    \/ \E id \in ShortIds, n \in ArchiveNames, l \in {"", "fabric"} :
          /\ CreateCall(id, n, l, "ok")
          /\ UNCHANGED archiveVars
          /\ StoreOfProfilesOnly
    \/ \E id \in ShortIds, kwargs \in UpdateKwargs :
          /\ update_profile(id, kwargs, "ok")
          /\ UNCHANGED <<dirs, archiveVars>>
          /\ StoreOfProfilesOnly

SpecCreate == Init /\ [][CreateNext]_vars


\* ---------------------------------------------------------------- claims
\* the installs of a profile: MainWindow._install_profile and the install
\* step of CreateProfileWindow._create_profile
ProfileInstalls == {"profile", "create"}

\* the installs the main window starts from _play
MainInstalls == {"profile", "version"}

CallsALoader(th) == \E i \in DOMAIN th.calls : th.calls[i] \in LoaderInstallers

\* C1: in one profile install, install_version is the first call, and
\* nothing is called after it unless it has returned success
BaseFirst(th) ==
    th.kind \in ProfileInstalls =>
        /\ th.calls /= <<>>
        /\ th.calls[1] = "install_version"
        /\ \A i \in DOMAIN th.calls :
               i > 1 => th.calls[i] /= "install_version" /\ th.success = "True"
        /\ th.success /= "True" => ~CallsALoader(th)

\* C1: in every profile install, of the main window and of the profile
\* dialog, install_version is called and has returned success before any
\* loader installer is called, and no loader installer is called when it
\* returns failure
C1_BaseBeforeLoader ==
    /\ \A t \in DOMAIN threads : BaseFirst(threads[t])
    /\ BaseFirst(finished)

\* C1: a profile install of the main window has ended after it installed the
\* base version and then called the loader installer
C1_Witness ==
    /\ finished.kind = "profile"
    /\ finished.calls = <<"install_version", "install_fabric">>
    /\ finished.success = "True"

\* C2: a profile install whose base install succeeded and whose loader
\* installer returned None ends in a failure status, and no delete of the
\* base version is issued
C2_LoaderFailureReported ==
    (/\ finished.kind \in ProfileInstalls
     /\ finished.success = "True"
     /\ CallsALoader(finished)
     /\ ~finished.loaded)
        => /\ finished.status = "failed"
           /\ \A i \in DOMAIN finished.calls :
                  finished.calls[i] /= "delete_version"

\* C3: at most one install started from _play is running, it has called
\* install_version exactly once, and is_downloading is true for as long as
\* it runs, so that a second _play is turned away
C3_OneInstallFromPlay ==
    LET main == {t \in DOMAIN threads : threads[t].kind \in MainInstalls}
    IN  /\ Cardinality(main) <= 1
        /\ main /= {} => is_downloading
        /\ \A t \in main :
               Cardinality({i \in DOMAIN threads[t].calls :
                              threads[t].calls[i] = "install_version"}) = 1

\* C3: the install of the selected profile is running, is_downloading is
\* set and the main window takes the next click on Play
C3_Witness ==
    /\ is_downloading
    /\ MainWindowActive
    /\ \E t \in DOMAIN threads :
           /\ threads[t].kind = "profile"
           /\ threads[t].pc = "base"
           /\ selected_version = ProfileCard(threads[t].profile)

\* C4: no two installs of the same game version are ever in flight at the
\* same time, whichever entry points started them
C4_NoConcurrentInstalls ==
    \A t, u \in DOMAIN threads :
        (t /= u /\ InFlight(threads[t]) /\ InFlight(threads[u]))
            => threads[t].minecraft_version /= threads[u].minecraft_version

SameAccount(x, y) == x.type = y.type /\ x.uuid = y.uuid

InList(accs, r) == \E i \in 1..Len(accs) : accs[i] = r

\* C5: no two accounts of the list have the same (kind, playerId)
NoDuplicateAccount ==
    \A i, j \in 1..Len(accounts) :
        i /= j => ~SameAccount(objs[accounts[i]], objs[accounts[j]])

\* C5: a successful provider login leaves the new account last in the list
\* and active, and keeps exactly the old entries of another (kind, playerId)
LoginReplaces ==
    (last'.op \in {"login_elyby", "login_microsoft"} /\ last'.ret) =>
        LET new == last'.arg
        IN /\ objs'[new].type =
                  (IF last'.op = "login_elyby" THEN "elyby" ELSE "microsoft")
           /\ accounts'[Len(accounts')] = new
           /\ active' = new
           /\ ~InList(accounts, new)
           /\ \A r \in 1..Len(objs) :
                  (InList(accounts', r) /\ r /= new)
                      <=> (InList(accounts, r) /\ ~SameAccount(objs[r], objs'[new]))
           /\ \A r \in 1..Len(objs) : InList(accounts', r) => objs'[r] = objs[r]

\* C5: after any sequence of store operations the account list holds no two
\* accounts with the same (kind, playerId), and a successful provider login
\* replaces the entry of its (kind, playerId), appends the new account and
\* makes it active
C5_UniquePerKindAndId == []NoDuplicateAccount /\ [][LoginReplaces]_authVars

\* C5: a provider login has just replaced the entry of its (kind, playerId)
C5_Witness ==
    /\ last.op = "login_elyby"
    /\ last.ret
    /\ last.name = "replaced"
    /\ Len(accounts) >= 2

\* C6: remove(account) moves the active pointer to the first remaining
\* account (or none) when the removed account is the active one, and leaves
\* the active account alone otherwise; accounts are told apart by
\* (kind, playerId)
C6_RemoveKeepsOtherActive ==
    [][last'.op = "remove" =>
        LET a == objs[last'.arg]
            remaining == SelectSeq(accounts, LAMBDA r : ~SameAccount(objs[r], a))
        IN IF active /= None /\ SameAccount(objs[active], a)
           THEN active' = (IF remaining /= <<>> THEN remaining[1] ELSE None)
           ELSE active' = active]_authVars

\* C7: addLocalAccount(u) succeeds, returns an active Local account named u
\* up to case, the only one of that name in the list; when the list already
\* had one, that very account, unchanged, is returned and nothing is added
C7_AddLocalReuses ==
    [][last'.op = "add_offline" =>
        LET u == last'.name
            acc == last'.arg
            Named(os, r) == os[r].type = "offline" /\ Lower(os[r].username) = Lower(u)
            before == {i \in 1..Len(accounts) : Named(objs, accounts[i])}
            after == {i \in 1..Len(accounts') : Named(objs', accounts'[i])}
        IN /\ last'.ret
           /\ active' = acc
           /\ InList(accounts', acc)
           /\ Named(objs', acc)
           /\ Cardinality(after) = 1
           /\ before /= {} =>
                  /\ \E i \in before : accounts[i] = acc
                  /\ objs'[acc] = objs[acc]
                  /\ accounts' = accounts
           /\ before = {} =>
                  /\ accounts' = Append(accounts, acc)
                  /\ objs'[acc].username = u]_authVars

\* C7: a second addLocalAccount with another spelling has returned the
\* account of the first
C7_Witness ==
    /\ last.op = "add_offline"
    /\ objs[last.arg].username /= last.name
    /\ Lower(objs[last.arg].username) = Lower(last.name)
    /\ active = last.arg

C9_EnsureValid ==
    [][last'.op = "ensure_valid" =>
        LET a == IF last'.arg = None THEN active ELSE last'.arg
            store == <<objs, accounts, active, file>>
        IN IF a = None
           THEN ~last'.ret /\ last'.calls = 0 /\ last'.via = "none" /\ store' = store
           ELSE IF objs[a].type = "offline" \/ now < objs[a].expires_at - ExpiryBuffer
           THEN last'.ret /\ last'.calls = 0 /\ last'.via = "none" /\ store' = store
           ELSE /\ last'.via = objs[a].type
                /\ last'.calls <= 1
                /\ ~last'.ret => store' = store
                /\ last'.ret =>
                      /\ last'.calls = 1
                      /\ accounts' = accounts /\ active' = active
                      /\ \A r \in 1..Len(objs) : r /= a => objs'[r] = objs[r]
                      /\ objs'[a].type = "microsoft" =>
                             objs'[a].expires_at = now + TokenLifetime]_authVars

\* C9: ensureValid without an argument has just refreshed the expired
\* active Microsoft account
C9_Witness ==
    /\ last.op = "ensure_valid"
    /\ last.arg = None
    /\ last.via = "microsoft"
    /\ last.ret
    /\ now > 0

\* every login thread has ended and no call of the store is in progress
Quiescent ==
    /\ last = Idle
    /\ \A w \in DOMAIN workers : workers[w].pc = "done"

\* C10: whatever the interleaving of the login threads and the calls on the
\* user-interface thread, once they have all ended the list holds every
\* account a successful login added and the accounts file, when its last
\* write succeeded, holds the store as it is
C10_NoLostUpdate ==
    Quiescent =>
        /\ \A k \in added :
               \E i \in 1..Len(accounts) : Key(objs[accounts[i]]) = k
        /\ file.status = "written" => file = Document(objs, accounts, active)

\* C11: every write of accounts.json is atomic: after any step the file is
\* the document it held before the step or the complete document of the
\* store as the step leaves it, never an empty or partial one
C11_AtomicPersist ==
    [][file' = file \/ file' = Document(objs', accounts', active')]_vars

\* C13: a login_elyby call that does not log in (the provider rejects it,
\* the network fails, or a 200 response lacks fields) does not raise,
\* returns False, invokes on_complete once, and leaves the account list
\* and the active account as they were
C13_FailedLoginIsReported ==
    [][(last.op = "idle" /\ last'.op = "login_elyby"
            /\ last'.name \in {"rejected", "network", "malformed"}) =>
         /\ ~last'.raised
         /\ ~last'.ret
         /\ last'.notified = 1
         /\ accounts' = accounts
         /\ active' = active]_vars

\* C14: in an install thread, an installer whose external call failed has
\* returned False (install_version) or None (a loader installer), and the
\* thread has gone on to post its callback
C14_FailuresAreReturned ==
    \A t \in DOMAIN threads :
        /\ threads[t].failed = "base" =>
               threads[t].success = "False" /\ threads[t].pc = "callback"
        /\ threads[t].failed = "loader" =>
               threads[t].result = "" /\ threads[t].pc = "callback"

\* C15: two distinct profiles of the store, each created with no game
\* directory given, never have the same game directory
C15_DirectoriesNeverCollide ==
    \A i, j \in DOMAIN profiles :
        i /= j => profiles[i].game_directory /= profiles[j].game_directory

\* C12: when the write of accounts.json or of profiles.json fails in a call
\* of a store, the call does not raise, and it leaves in memory exactly
\* what the same call leaves when the write succeeds: from the state before
\* the call there is a step that ends with the same accounts, active
\* account and result (the same profiles, directories and result) and with
\* the document of that memory on disk
AccountWriteFailed == file /= Torn /\ file' = Torn

ProfileWriteFailed ==
    profiles_file /= TornProfiles /\ profiles_file' = TornProfiles

DeleteProfileStep ==
    \/ returned' /= returned
    \/ DOMAIN profiles' /= DOMAIN profiles /\ DOMAIN profiles' \subseteq DOMAIN profiles

C16_DeleteRemovesOnlyTheEntry ==
    [][DeleteProfileStep =>
         /\ dirs' = dirs
         /\ installed' = installed
         /\ IF returned'.id \in DOMAIN profiles
            THEN /\ returned'.ret
                 /\ DOMAIN profiles' = DOMAIN profiles \ {returned'.id}
                 /\ \A j \in DOMAIN profiles' : profiles'[j] = profiles[j]
            ELSE /\ ~returned'.ret
                 /\ profiles' = profiles
                 /\ profiles_file' = profiles_file]_vars

\* one of two profiles has been deleted: the other is in the store, and the
\* directory they were given and an installed version are still on disk
C16_Witness ==
    /\ returned = Returned("p1", TRUE)
    /\ DOMAIN profiles = {"p2"}
    /\ profiles["p2"].game_directory \in dirs
    /\ "1.20.1" \in installed

\* C17: a step never takes out of the versions directory a version that is
\* the version_id of a profile still in the store after the step
ResolvedIds(ps) ==
    {version_id(ps[i].minecraft_version, ps[i].loader_type,
                ps[i].loader_version) : i \in DOMAIN ps}

C17_SharedVersionIsKept ==
    [][\A v \in installed \ installed' : v \notin ResolvedIds(profiles')]_vars

\* a profile was deleted with the answer "yes" (its folder is gone) and the
\* profile left in the store still has its version installed
C17_Witness ==
    /\ returned = Returned("p1", TRUE)
    /\ DOMAIN profiles = {"p2"}
    /\ profiles["p2"].game_directory \notin dirs
    /\ ResolvedIds(profiles) \subseteq installed

\* C18: the version a profile is launched as is the one the claim gives for
\* its game version, loader type and loader version, and for nothing else:
\* "<kind>-loader-<loader>-<game>" for fabric and quilt, "<a>-forge-<b>" for
\* forge with the loader version "<a>-<b>" split at its first "-",
\* "neoforge-<loader>", "<game>-OptiFine_<loader>", the game version without
\* a loader, and for forge with OptiFine as a mod what plain forge gives
ForgeId(loader_version) ==
    CASE loader_version = "1.20.1-47.2.0" -> "1.20.1-forge-47.2.0"
      [] loader_version = "1.21-51.0.33" -> "1.21-forge-51.0.33"
      [] loader_version = "1.7.10-10.13.4.1614-1.7.10" ->
             "1.7.10-forge-10.13.4.1614-1.7.10"

ResolvedVersionId(p) ==
    CASE p.loader_type \in {"fabric", "quilt"} ->
             p.loader_type \o "-loader-" \o p.loader_version \o "-"
                 \o p.minecraft_version
      [] p.loader_type \in {"forge", "forge+optifine"} -> ForgeId(p.loader_version)
      [] p.loader_type = "neoforge" -> "neoforge-" \o p.loader_version
      [] p.loader_type = "optifine" ->
             p.minecraft_version \o "-OptiFine_" \o p.loader_version
      [] p.loader_type = "" -> p.minecraft_version

C18_ResolvedVersionId ==
    [][launched' /= launched =>
         launched'.version_id =
             ResolvedVersionId(profiles[CardProfile(selected_version)])]_vars

\* the profile of the spec's example has been launched, and so has a
\* profile of forge with OptiFine as a mod
C18_Witness ==
    /\ launched.version_id = "1.20.1-forge-47.2.0"
    /\ IsProfileCard(selected_version)
    /\ profiles[CardProfile(selected_version)].loader_type = "forge+optifine"
    /\ profiles[CardProfile(selected_version)].last_played /= <<>>

\* C19: whenever a profile is launched (mark_played records it), the game
\* runs in the profile's game directory if it has one, and in the global
\* directory only if it has none
C19_LaunchUsesProfileDirectory ==
    [][\A id \in DOMAIN profiles \cap DOMAIN profiles' :
          (profiles[id].last_played = <<>> /\ profiles'[id].last_played /= <<>>) =>
              launched'.game_directory =
                  IF profiles[id].game_directory /= ""
                  THEN profiles[id].game_directory
                  ELSE get_minecraft_dir]_vars

\* C20: a profile's data directory is made only right before a launch:
\* as long as no game was ever launched, no directory other than the global
\* one exists
C20_DirectoryOnlyBeforeLaunch ==
    launched.version_id = "" => dirs \subseteq {get_minecraft_dir}

\* a launch_game call has started a process
Started == "options" \in DOMAIN launched

AgentArgs == {"-javaagent:authlib-injector.jar=ely.by", "-Dauthlibinjector.side=client"}

\* C21: in the JVM arguments of a launch every agent-injection argument
\* comes before the memory flags -Xms<min>G and -Xmx<max>G and the GC
\* flags, and every extra argument of the user comes after all of them
C21_AgentFirstExtraLast ==
    Started =>
        LET args == launched.options.jvmArguments
            given == launched.extra_jvm_args
            agent == {i \in DOMAIN args : args[i] \in AgentArgs}
            extra == {i \in DOMAIN args : \E k \in DOMAIN given : args[i] = given[k]}
            tuning == DOMAIN args \ (agent \cup extra)
            memory == {"-Xms" \o ToString(launched.ram_min) \o "G",
                       "-Xmx" \o ToString(launched.ram_max) \o "G"}
        IN  /\ Cardinality(extra) = Len(given)
            /\ {args[i] : i \in tuning} =
                   memory \cup {GCFlags[k] : k \in DOMAIN GCFlags}
            /\ \A i \in agent, j \in tuning : i < j
            /\ \A i \in tuning, j \in extra : i < j
            /\ \A i \in agent, j \in extra : i < j

\* a launch with the agent injected and two extra arguments
C21_Witness ==
    /\ Started
    /\ launched.use_elyby
    /\ launched.options.jvmArguments[1] \in AgentArgs
    /\ Len(launched.extra_jvm_args) = 2
    /\ launched.ram_min = 2 /\ launched.ram_max = 8

\* the auth-type tag among the options of the launch command, if any
UserTypeOf(options) ==
    IF "user_type" \in DOMAIN options THEN options.user_type ELSE "not passed"

\* the credentials of C22 without the tag
CredentialsOf(options) ==
    [username |-> options.username, uuid |-> options.uuid, token |-> options.token]

\* C22: a launch with no active account runs as "Player" with empty
\* identifier and token and the tag "legacy"; with an active account it runs
\* with its name, its identifier without dashes, its access token and the
\* tag msa / mojang / legacy of its kind, and the tag is among the options of
\* the game command
C22_LaunchCredentials ==
    [][launched' /= launched =>
          LET options == launched'.options
          IN  IF active = None
              THEN /\ CredentialsOf(options) =
                          [username |-> "Player", uuid |-> "", token |-> ""]
                   /\ UserTypeOf(options) = "legacy"
              ELSE LET acc == objs'[active]
                   IN  /\ CredentialsOf(options) =
                              [username |-> acc.username,
                               uuid |-> without_dashes(acc.uuid),
                               token |-> acc.access_token]
                       /\ UserTypeOf(options) =
                              CASE acc.type = "microsoft" -> "msa"
                                [] acc.type = "elyby" -> "mojang"
                                [] OTHER -> "legacy"]_vars

\* install_mod_with_dependencies has returned
ModsInstalled == returned.op = "install_mod_with_dependencies"

\* the files of a list of paths
Files(paths) == {paths[i] : i \in DOMAIN paths}

\* the latest compatible versions that the versions vs need directly
NeededBy(registry, vs) ==
    {registry[d.id][1] :
        d \in UNION {{v.dependencies[i] : i \in DOMAIN v.dependencies} : v \in vs}
              \cap {Dep(m, "required") : m \in {m \in DOMAIN registry : registry[m] /= <<>>}}}

\* the chosen version with everything it needs through at most three
\* "required" relations (the registries have chains of two)
Reachable(registry, version) ==
    LET one == {version} \cup NeededBy(registry, {version})
        two == one \cup NeededBy(registry, one)
    IN  two \cup NeededBy(registry, two)

\* C23: when no download fails, every mod that the chosen version reaches
\* through a chain of "required" relations and that has a compatible
\* version is downloaded, not only the direct dependencies
C23_DependenciesAreTransitive ==
    (ModsInstalled /\ returned.failing = {}) =>
        \A v \in Reachable(returned.registry, returned.version) :
            v.file_name \in Files(returned.ret)

\* C24: the files downloaded are the chosen mod and, for each dependency of
\* it marked "required", the first version the registry returns; nothing of
\* another dependency type is downloaded, and a required dependency without
\* a compatible version is skipped and the call still returns
C24_OnlyRequiredDependencies ==
    ModsInstalled =>
        LET version == returned.version
            wanted == {version} \cup NeededBy(returned.registry, {version})
        IN  Files(returned.ret) =
                {v.file_name : v \in {v \in wanted : v.id \notin returned.failing}}

\* a call with a tool dependency that has versions, and a required one
\* that has none
C24_Witness ==
    /\ ModsInstalled
    /\ returned.version.dependencies = <<Dep("b", "tool"), Dep("c", "required")>>
    /\ returned.registry["b"] /= <<>>
    /\ returned.registry["c"] = <<>>
    /\ returned.ret = <<"a-1.jar">>

\* export_profile has just written the archive
ExportStep == archive' /= archive /\ archive'.status = "written"

\* import_profile has just returned a profile
ImportStep == returned' /= returned /\ returned'.op = "import_profile"

\* the files an archive holds for a folder
Archived(a, folder) == Cardinality({e \in a.entries : e[1] = folder})

\* C25: the archive holds the files of every included folder of the
\* exported profile, and the profile made from it by import_profile has, in
\* get_export_info, that file count in every included folder and 0 in
\* every folder left out
C25_ExportImportRoundTrip ==
    [][/\ ExportStep =>
            \A folder \in archive'.manifest.included :
                Archived(archive', folder) =
                    get_export_info(profiles, dirs, files, returned'.id)[folder]
       /\ ImportStep =>
            \A folder \in ExportFolders :
                get_export_info(profiles', dirs', files', returned'.id)[folder] =
                    IF folder \in archive.manifest.included
                    THEN Archived(archive, folder)
                    ELSE 0]_vars

\* the name asked for by the import that has just returned
Desired == IF returned'.new_name /= "" THEN returned'.new_name
           ELSE archive.manifest.name

NamesOf(ps) == {ps[i].name : i \in DOMAIN ps}

Numbered(name, n) == name \o " (" \o ToString(n) \o ")"

\* C27: the imported profile keeps the name asked for when no profile has
\* it; otherwise it is named "<name> (n)" with the least n >= 1 that no
\* profile has; either way its name differs from every profile that was
\* there
C27_ImportNameIsFree ==
    [][ImportStep =>
          LET name == profiles'[returned'.id].name
          IN  /\ name \notin NamesOf(profiles)
              /\ Desired \notin NamesOf(profiles) => name = Desired
              /\ Desired \in NamesOf(profiles) =>
                    \E n \in 1..(Cardinality(DOMAIN profiles) + 1) :
                        /\ name = Numbered(Desired, n)
                        /\ \A m \in 1..(n - 1) :
                               Numbered(Desired, m) \in NamesOf(profiles)]_vars

\* two imports of the archive of "My Pack" into the store that holds it
C27_Witness ==
    /\ returned.op = "import_profile"
    /\ {"My Pack", "My Pack (1)", "My Pack (2)"} \subseteq NamesOf(profiles)
    /\ profiles[returned.id].name = "My Pack (2)"

\* generate_manifest_code has just been called on a stored profile
GenerateStep ==
    /\ returned' /= returned
    /\ returned'.op = "generate_manifest_code"
    /\ returned'.id \in DOMAIN profiles

\* the registry identity of the mods of a list
ModIdentities(mods) ==
    {[mod_id |-> mods[i].mod_id, source |-> mods[i].source,
      version_id |-> mods[i].version_id] : i \in DOMAIN mods}

\* C26: generate_manifest_code succeeds on every stored profile, also when
\* mods of it have no display name or no registry id, and
\* parse_manifest_code of the code gives the game version, the loader type
\* and version of the profile and exactly its mods that come from modrinth
\* or curseforge and have a registry id
C26_ShareCodeRoundTrip ==
    [][GenerateStep =>
          /\ ~returned'.raised
          /\ returned'.ret /= <<>>
          /\ LET profile == profiles[returned'.id]
                 parsed == parse_manifest_code(returned'.ret[1])
             IN  /\ parsed.minecraft_version = profile.minecraft_version
                 /\ parsed.loader_type = profile.loader_type
                 /\ parsed.loader_version = profile.loader_version
                 /\ ModIdentities(parsed.mods) =
                        ModIdentities(SelectSeq(profile.installed_mods, Shareable))]_vars

\* get_all_profiles has just returned
ListStep == returned' /= returned /\ returned'.op = "get_all_profiles"

\* mark_played has just stamped profile id
MarkStep(id) ==
    /\ id \in DOMAIN profiles
    /\ profiles' = [profiles EXCEPT ![id].last_played = <<now>>]
    /\ profiles' /= profiles

\* C28: get_all_profiles returns every stored profile once, later
\* last_played first and the profiles never played behind all that were
\* played; and once mark_played has stamped a profile with a time later than
\* every time stored, that profile is the first of the list
C28_ListIsSortedByLastPlayed ==
    [][/\ ListStep =>
            LET ids == returned'.ret
            IN  /\ Len(ids) = Cardinality(DOMAIN profiles)
                /\ {ids[i] : i \in DOMAIN ids} = DOMAIN profiles
                /\ \A i, j \in DOMAIN ids :
                       i < j =>
                           LET a == profiles[ids[i]].last_played
                               b == profiles[ids[j]].last_played
                           IN  /\ a = <<>> => b = <<>>
                               /\ (a /= <<>> /\ b /= <<>>) => a[1] >= b[1]
       /\ \A id \in DOMAIN profiles :
            (/\ MarkStep(id)
             /\ \A other \in DOMAIN profiles :
                    profiles[other].last_played /= <<>> =>
                        profiles[other].last_played[1] < now) =>
                \A order \in Orders(profiles') :
                    get_all_profiles(profiles', order)[1] = id]_vars

\* a list of three profiles: one played late, one played early, one never
C28_Witness ==
    /\ returned.op = "get_all_profiles"
    /\ Len(returned.ret) = 3
    /\ returned.ret = get_all_profiles(profiles, <<"p1", "p2", "p3">>)
    /\ returned.ret[1] /= "p1"
    /\ profiles[returned.ret[1]].last_played = <<1>>
    /\ profiles[returned.ret[2]].last_played = <<0>>
    /\ profiles[returned.ret[3]].last_played = <<>>

\* C29: every profile of the store has a loader version exactly when it
\* has a loader type
C29_LoaderVersionIffLoaderType ==
    \A id \in DOMAIN profiles :
        (profiles[id].loader_version /= "") <=> (profiles[id].loader_type /= "")

\* C30: the game directory of a profile that stays in the store changes
\* only in an update_profile call that is given game_directory
C30_DirectoryIsStable ==
    [][\A id \in DOMAIN profiles \cap DOMAIN profiles' :
          profiles'[id].game_directory /= profiles[id].game_directory =>
              /\ returned'.op = "update_profile"
              /\ returned'.id = id
              /\ "game_directory" \in DOMAIN returned'.kwargs
              /\ profiles'[id].game_directory = returned'.kwargs.game_directory]_vars

\* a profile that was played and got a mod is renamed while another profile
\* is in the store, and keeps its directory
C30_Witness ==
    /\ returned.op = "update_profile"
    /\ returned.ret
    /\ "name" \in DOMAIN returned.kwargs
    /\ DOMAIN profiles = {"p1", "p2"}
    /\ profiles[returned.id].name = "My Pack 1"
    /\ profiles[returned.id].game_directory = "profiles/My_Pack"
    /\ profiles[returned.id].last_played /= <<>>
    /\ profiles[returned.id].installed_mods /= <<>>

\* C31: an install started from the main window ends: its thread is gone,
\* its outcome is installed or failed and is_downloading is false again
C31_InstallEnds ==
    (threads /= <<>>) ~>
        /\ threads = <<>>
        /\ ~is_downloading
        /\ finished.kind \in {"profile", "version"}
        /\ finished.status \in {"installed", "failed"}

\* an install has failed, the flag is down, and it was the second install
C31_Witness ==
    /\ started = 2
    /\ threads = <<>>
    /\ ~is_downloading
    /\ finished.status = "failed"

\* C36: a profile install thread that has installed the base game has
\* called the installer of the loader of its profile, and if no installer
\* failed the version the profile resolves to is installed
C36_LoaderInstallerIsCalled ==
    \A t \in DOMAIN threads :
        LET th == threads[t]
        IN  (/\ th.kind = "profile" /\ th.pc = "callback"
             /\ th.success = "True" /\ th.loader_type /= "") =>
                /\ \E k \in DOMAIN th.calls : th.calls[k] = InstallerOf(th.loader_type)
                /\ th.failed = "none" => InstalledId(th) \in installed

\* C32: is_expired is false for an offline account whatever its
\* expires_at, and for another account true exactly when the time is at
\* or after expires_at - 60
C32_IsExpired ==
    returned.op = "is_expired" =>
        returned.ret = IF returned.type = "offline" THEN FALSE
                       ELSE returned.now >= returned.expires_at - 60

\* an account is expired one minute before its expires_at, to the second
C32_Witness ==
    /\ returned.op = "is_expired"
    /\ returned.type = "microsoft"
    /\ returned.expires_at = 120 /\ returned.now = 60
    /\ returned.ret

\* C33: once every call of the store and every login thread has ended,
\* the active account is None or one of the accounts of the list
C33_ActiveIsListed ==
    Quiescent => (active = None \/ \E i \in 1..Len(accounts) : accounts[i] = active)

\* the records of the accounts of a list, in its order
Listing(os, accs) == [i \in 1..Len(accs) |-> os[accs[i]]]

\* C34: a restart after a save that succeeded loads the account list that
\* was saved and makes active the account of the same type and uuid that
\* was active before, or none if none was
C34_ReloadRoundTrip ==
    [][(/\ last'.op = "load"
        /\ file = Document(objs, accounts, active)) =>
           /\ Listing(objs', accounts') = Listing(objs, accounts)
           /\ (active' = None) <=> (active = None)
           /\ active /= None =>
                  /\ active' /= None
                  /\ objs'[active'].type = objs[active].type
                  /\ objs'[active'].uuid = objs[active].uuid]_vars

\* C35: when a refresh of an account has just returned True, the account
\* is not expired, so that ensure_valid_token would return True without a
\* call of the provider
C35_RefreshedIsValid ==
    (/\ last.op \in {"refresh_elyby", "refresh_microsoft"}
     /\ last.ret) =>
        /\ ~is_expired(objs[last.arg], now)
        /\ ~NeedsRefresh(objs[last.arg], now)

\* C37: an import_profile call that fails leaves the profiles of the
\* store as they were
C37_FailedImportAddsNothing ==
    [][(/\ returned' /= returned
        /\ returned'.op = "import_profile failed") => profiles' = profiles]_vars

\* C38: when ensure_valid_token returns False for the active account in a
\* launch, no game is started
C38_NoLaunchWithoutValidSession ==
    [][(/\ last = Idle
        /\ last'.op = "ensure_valid"
        /\ ~last'.ret) => launched' = launched]_vars

\* the required dependencies among the direct dependencies of a version
RequiredOf(version) ==
    {i \in DOMAIN version.dependencies : version.dependencies[i].type = "required"}

\* C39: an install that has started returns, and it never makes more
\* download_mod calls than one for the chosen version and one for each of
\* its direct required dependencies
C39_InstallTerminates ==
    /\ [](returned.op \in {"installing", "install_mod_with_dependencies"} =>
              returned.downloads <= 1 + Cardinality(RequiredOf(returned.version)))
    /\ (returned.op = "installing") ~> (returned.op = "install_mod_with_dependencies")

\* the install of a mod that needs itself and a mod "b" that needs "a" has
\* returned after three downloads
C39_Witness ==
    /\ returned.op = "install_mod_with_dependencies"
    /\ returned.version.dependencies = <<Dep("a", "required"), Dep("b", "required")>>
    /\ returned.registry["b"] /= <<>>
    /\ returned.registry["b"][1].dependencies = <<Dep("a", "required")>>
    /\ returned.downloads = 3
    /\ Len(returned.ret) = 3

\* C40: a create_profile call adds one profile under an id no profile had,
\* leaves every profile that was in the store as it was, and every key of
\* the store is the id of its profile
C40_CreateAddsOne ==
    [][returned'.op = "create_profile" =>
           /\ returned'.id \notin DOMAIN profiles
           /\ DOMAIN profiles' = DOMAIN profiles \cup {returned'.id}
           /\ Cardinality(DOMAIN profiles') = Cardinality(DOMAIN profiles) + 1
           /\ \A i \in DOMAIN profiles : profiles'[i] = profiles[i]
           /\ \A k \in DOMAIN profiles' : profiles'[k].id = k]_vars

============================================================================
